---- MODULE Spec2Model ----
(***************************************************************************)
(* A model of bot-typist's streaming core: the Scanner, the BotResponse   *)
(* cell splitter, and the ChildPipe subprocess pipe.                       *)
(*                                                                         *)
(* Text is a sequence of one-character strings.  The Reader hands the      *)
(* input to the Scanner in chunks whose sizes are chosen freely at every   *)
(* read, so every way of splitting the input is explored.                  *)
(***************************************************************************)
EXTENDS Integers, Sequences, FiniteSets, TLC

VARIABLES
  \* ---- BotResponse.copy session ----
  input,        \* the logical input string of the session
  rest,         \* the part of the input the Reader has not delivered yet
  buffer,       \* Scanner.#buffer
  inputDone,    \* Scanner.#inputDone
  chunking,     \* how the Reader has split the input so far in this run
  pc,           \* where copy() stands
  ret,          \* where copyLineTo returns to
  header,       \* the HeaderLine type matched last
  name,         \* the label collected by takeLabel
  cells,        \* what the sink has received: cells with their text
  refused,      \* the sink calls that have returned false
  runNo,        \* 1: first delivery of the input, 2: second delivery
  prev,         \* the outcome of the first delivery
  jobs,         \* the promise jobs that are queued, in the order they will run
  startPromise, \* the promise of the start call that copy() awaits
  \* ---- ChildPipe session ----
  impl,         \* which ChildPipe source is running: "processes" or "part_020"
  client,       \* who uses the pipe: "run" (write, close) or "probe"
  proc,         \* the child process: "running" or "exited"
  exitCode,     \* its exit code (0 while running or when a signal ended it)
  exitSignal,   \* a signal ended it
  kills,        \* how many times child.kill() has been called
  stopKills,    \* how many of these calls #stop made
  seen,         \* the events Node has delivered to ChildPipe's listeners
  stdoutBuf,    \* stdout chunks the child wrote that the handler has not read
  handlerGot,   \* the chunks the stdout handler has read
  handler,      \* the stdout handler: "running", "returned" or "threw"
  stderrSent,   \* the stderr chunks the child wrote, in order
  stderrBuf,    \* those the stderr reader has not read yet
  stderr,       \* ChildPipe.#stderr
  stopCalled,   \* ChildPipe.#stopCalled
  stopped,      \* the Completer #stopError / #stopped
  isWriting,    \* ChildPipe.#isWriting
  writeCalls,   \* how many times write() has been called
  writesOpen,   \* write() promises waiting for a drain event
  writeThrew,   \* some write() call threw
  stdinEnded,   \* stdin.end() has been called
  closePc,      \* where close() stands
  closeResult,  \* how close() settled
  probePc,      \* where checkCommandPath stands
  timedOut,     \* the probe's timer fired before close() settled
  \* ---- copyStream session ----
  mode,         \* the Readable: "object" (read() gives one chunk) or "bytes"
  arrived,      \* the chunks that have arrived in the source, in order
  srcBuf,       \* those that source.read() has not handed out yet
  srcState,     \* the source: "open", "ended" (no more data) or "errored"
  endEmitted,   \* the source has emitted "end"
  destroyed,    \* source.destroy() has been called
  listening,    \* copyStream's readable/end/error listeners are attached
  currentRead,  \* copyStream's currentRead: "none" or "pending"
  streamEnded,  \* copyStream's streamEnded
  streamError,  \* copyStream's streamError is set
  results,      \* what the adapter's read() calls have given the handler
  readCalls,    \* how many times the handler has called read()
  csPc,         \* copyStream: "running", "handlerDone" (dest settled), "done"
  \* ---- rendezvous pipe session ----
  pimpl,        \* "makePipe" or "ParserWriter"
  readerWaiting,\* the Completer readerWaiting / #parserWaiting
  nextRead,     \* the Completer nextRead / #nextWrite: <<>> while pending
  isReading,    \* isReading
  pipeDone,     \* done / #writesDone
  sending,      \* sending / #sending
  readerPc,     \* the reading side: "reading", "finished" (got DONE), "exited"
  readsPending, \* read() calls that await nextRead
  inflight,     \* the values of the send calls that await readerWaiting
  readCount,    \* how many times the pipe's read() has been called
  sendCount,    \* how many times write() or close() has been called
  closed,       \* close() has been called
  sent,         \* the values of the accepted write/close calls, in call order
  acks,         \* how the sends resolved: value and answer
  got,          \* what the reader's read() calls returned
  cancelled,    \* reader.cancel() was called, or the parser has exited
  readThrew,    \* a read() call threw "Already reading"
  sendThrew,    \* a write() or close() call threw "Already writing"
  closeLost,    \* ParserWriter.close(): #send(DONE) threw and nobody saw it
  \* ---- Scanner session ----
  source,       \* the chunks the Reader was given, in order
  chunksLeft,   \* those it has not returned yet; after them it returns DONE
  scanBuffer,   \* Scanner.#buffer
  scanInputDone,\* Scanner.#inputDone
  scanCall,     \* the Scanner method that is running, with its argument
  scanLast,     \* the last method that returned, with its result
  scanCalls,    \* how many methods the caller has called
  openReads     \* the Reader's read() calls that nobody has resumed from yet

parseVars == <<input, rest, buffer, inputDone, chunking, pc, ret,
               header, name, cells, refused, runNo, prev, jobs, startPromise>>

pipeVars == <<impl, client, proc, exitCode, exitSignal, kills, stopKills, seen,
              stdoutBuf, handlerGot, handler, stderrSent, stderrBuf, stderr,
              stopCalled, stopped, isWriting, writeCalls, writesOpen,
              writeThrew, stdinEnded, closePc, closeResult, probePc, timedOut>>

streamVars == <<mode, arrived, srcBuf, srcState, endEmitted, destroyed,
                listening, currentRead, streamEnded, streamError, results,
                readCalls, csPc>>

rvVars == <<pimpl, readerWaiting, nextRead, isReading, pipeDone, sending,
            readerPc, readsPending, inflight, readCount, sendCount, closed,
            sent, acks, got, cancelled, readThrew, sendThrew, closeLost>>

scanVars == <<source, chunksLeft, scanBuffer, scanInputDone, scanCall,
              scanLast, scanCalls, openReads>>

vars == <<parseVars, pipeVars, streamVars, rvVars, scanVars>>

----------------------------------------------------------------------------
(* Bounds *)

MaxPieces == 2
MaxStdout == 1
MaxStderr == 2
MaxWrites == 2

----------------------------------------------------------------------------
(* Text helpers *)

Drop(s, n) == SubSeq(s, n + 1, Len(s))

Take(s, n) == SubSeq(s, 1, n)

\* String.prototype.startsWith
IsPrefix(p, s) == Len(p) <= Len(s) /\ Take(s, Len(p)) = p

\* String.prototype.indexOf, 1-based; 0 when the character is absent
IndexOf(s, c) ==
  IF \E i \in 1..Len(s) : s[i] = c
  THEN CHOOSE i \in 1..Len(s) : s[i] = c /\ \A j \in 1..(i - 1) : s[j] # c
  ELSE 0

NL == "\n"

\* what String.prototype.trim removes (of the characters used here)
WhiteSpace == {" ", "\t", "\n", "\r"}

TrimIsEmpty(s) == \A i \in 1..Len(s) : s[i] \in WhiteSpace

allLanguages == <<"python", "typescript">>

allCellTypes == <<"markdown", "python", "typescript">>

TypeChars(t) ==
  CASE t = "markdown" -> <<"m", "a", "r", "k", "d", "o", "w", "n">>
    [] t = "python" -> <<"p", "y", "t", "h", "o", "n">>
    [] t = "typescript" -> <<"t", "y", "p", "e", "s", "c", "r", "i", "p", "t">>

\* `%${lang}\n`
HeaderToken(t) == <<"%">> \o TypeChars(t) \o <<NL>>

\* the backquote character (U+0060), which a TLA+ string cannot hold
BQ == "bq"

Fence == <<BQ, BQ, BQ>>

\* three backquotes + lang + "\n"
CodeBlockHeader(t) == Fence \o TypeChars(t) \o <<NL>>

defaultCue == <<"b", "o", "t">>

CueSep == <<":", " ">>

NoResponse == <<"(", "n", "o", " ", "r", "e", "s", "p", "o", "n", "s", "e", ")">>

labelChars ==
  {"a", "b", "c", "d", "e", "f", "g", "h", "i", "j", "k", "l", "m", "n", "o",
   "p", "q", "r", "s", "t", "u", "v", "w", "x", "y", "z",
   "A", "B", "C", "D", "E", "F", "G", "H", "I", "J", "K", "L", "M", "N", "O",
   "P", "Q", "R", "S", "T", "U", "V", "W", "X", "Y", "Z",
   "0", "1", "2", "3", "4", "5", "6", "7", "8", "9", " "}

----------------------------------------------------------------------------
(* Scanner operations.                                                     *)
(*                                                                         *)
(* Each takes the buffer b and `more`: whether the Reader still has text.  *)
(* The result says whether the operation stands at a pull() that will get  *)
(* a chunk (st = "pull", with the buffer as it is at that await), or has   *)
(* finished (st = "ok") with buffer b, value val, and eof = a pull()       *)
(* returned false on the way, which sets #inputDone.                       *)
(***************************************************************************)

Res(st, b, val, eof) == [st |-> st, b |-> b, val |-> val, eof |-> eof]

\* An atEnd that only looks at the buffer.
atEndOfBuffer(b, done) == Len(b) = 0

\* Scanner.atEnd
atEnd(b, done) == Len(b) = 0 /\ done

\* A startsWith that decides on the text buffered so far, without pulling.
startsWithBuffered(b, prefix, more) ==
  Res("ok", b, IsPrefix(prefix, b), FALSE)

\* Scanner.startsWith
startsWith(b, prefix, more) ==
  IF Len(b) < Len(prefix)
  THEN IF b # Take(prefix, Len(b))
       THEN Res("ok", b, FALSE, FALSE)
       ELSE IF more THEN Res("pull", b, FALSE, FALSE)
                    ELSE Res("ok", b, FALSE, TRUE)
  ELSE Res("ok", b, IsPrefix(prefix, b), FALSE)

\* Scanner.skipToken
skipToken(b, token, more) ==
  LET r == startsWith(b, token, more) IN
  IF r.st = "ok" /\ r.val THEN Res("ok", Drop(b, Len(token)), TRUE, r.eof)
  ELSE r

\* A takeBlankLine that takes only a line without any character.
takeEmptyLine(b, more) ==
  IF b = <<>>
  THEN IF more THEN Res("pull", b, <<>>, FALSE) ELSE Res("ok", b, <<>>, TRUE)
  ELSE IF b[1] = NL THEN Res("ok", Drop(b, 1), <<NL>>, FALSE)
       ELSE Res("ok", b, <<>>, FALSE)

\* Scanner.takeBlankLine
takeBlankLine(b, more) ==
  LET end == IndexOf(b, NL)
      limit == IF end = 0 THEN Len(b) ELSE end - 1
  IN IF ~TrimIsEmpty(Take(b, limit))
     THEN Res("ok", b, <<>>, FALSE)
     ELSE IF end > 0
          THEN Res("ok", Drop(b, end), Take(b, end), FALSE)
          ELSE IF more THEN Res("pull", b, <<>>, FALSE)
                       ELSE Res("ok", <<>>, b, TRUE)

\* A takeChunkWithinLine that waits for the end of the line.
takeWholeLine(b, more) ==
  LET end == IndexOf(b, NL) IN
  IF end = 0
  THEN IF more THEN Res("pull", b, <<>>, FALSE) ELSE Res("ok", <<>>, b, TRUE)
  ELSE Res("ok", Drop(b, end), Take(b, end), FALSE)

\* Scanner.takeChunkWithinLine (with fillTo(1))
takeChunkWithinLine(b, more) ==
  IF Len(b) < 1
  THEN IF more THEN Res("pull", b, <<>>, FALSE) ELSE Res("ok", b, <<>>, TRUE)
  ELSE LET end == IndexOf(b, NL) IN
       IF end = 0 THEN Res("ok", <<>>, b, FALSE)
       ELSE Res("ok", Drop(b, end), Take(b, end), FALSE)

\* Scanner.takeLine
takeLine(b, more) ==
  LET end == IndexOf(b, NL) IN
  IF end = 0
  THEN IF more THEN Res("pull", b, <<>>, FALSE) ELSE Res("ok", <<>>, b, TRUE)
  ELSE Res("ok", Drop(b, end), Take(b, end), FALSE)

\* Scanner.takeMatchingChar (with fillTo(1))
takeMatchingChar(b, allowedChars, more) ==
  IF Len(b) < 1
  THEN IF more THEN Res("pull", b, <<>>, FALSE) ELSE Res("ok", b, <<>>, TRUE)
  ELSE IF b[1] \notin allowedChars
       THEN Res("ok", b, <<>>, FALSE)
       ELSE Res("ok", Drop(b, 1), <<b[1]>>, FALSE)

\* Scanner.takeMatchingPrefix: takeMatchingChar until it returns "".
\* At a pull, val is the result collected so far.
RECURSIVE takeMatchingPrefix(_, _, _)
takeMatchingPrefix(b, allowedChars, more) ==
  LET c == takeMatchingChar(b, allowedChars, more) IN
  IF c.st = "pull" \/ c.val = <<>> THEN c
  ELSE LET r == takeMatchingPrefix(c.b, allowedChars, more) IN
       Res(r.st, r.b, c.val \o r.val, r.eof)

\* Scanner.takeEmoji.  No character of the model's inputs is an emoji of the
\* allow-list, so it consumes nothing; it needs a buffered unit to decide.
takeEmoji(b, more) ==
  IF Len(b) < 1
  THEN IF more THEN Res("pull", b, <<>>, FALSE) ELSE Res("ok", b, <<>>, TRUE)
  ELSE Res("ok", b, <<>>, FALSE)

\* takeLabel: label characters and emoji, until neither is next.
\* At a pull, val is the name collected so far.
RECURSIVE takeLabel(_, _)
takeLabel(b, more) ==
  LET c == takeMatchingChar(b, labelChars, more) IN
  IF c.st = "pull" THEN c
  ELSE IF c.val # <<>>
       THEN LET r == takeLabel(c.b, more) IN
            Res(r.st, r.b, c.val \o r.val, r.eof \/ c.eof)
       ELSE LET e == takeEmoji(c.b, more) IN
            IF e.st = "pull" THEN e
            ELSE IF e.val # <<>>
                 THEN LET r == takeLabel(e.b, more) IN
                      Res(r.st, r.b, e.val \o r.val, r.eof \/ e.eof)
                 ELSE Res("ok", e.b, <<>>, c.eof \/ e.eof)

----------------------------------------------------------------------------
(* BotResponse helpers *)

\* BotResponse.skipBlankLines: takeBlankLine until it returns "".
RECURSIVE skipBlankLines(_, _)
skipBlankLines(b, more) ==
  LET r == takeBlankLine(b, more) IN
  IF r.st = "pull" \/ r.val = <<>> THEN r
  ELSE LET n == skipBlankLines(r.b, more) IN
       Res(n.st, n.b, n.val, n.eof \/ r.eof)

\* BotResponse.matchHeaderLine, trying allCellTypes from index i on.
\* val is the matched cell type, or "none".
RECURSIVE matchHeaderFrom(_, _, _)
matchHeaderFrom(i, b, more) ==
  IF i > Len(allCellTypes) THEN Res("ok", b, "none", FALSE)
  ELSE LET r == startsWith(b, HeaderToken(allCellTypes[i]), more) IN
       IF r.st = "pull" THEN r
       ELSE IF r.val THEN Res("ok", b, allCellTypes[i], r.eof)
       ELSE LET n == matchHeaderFrom(i + 1, b, more) IN
            Res(n.st, n.b, n.val, n.eof \/ r.eof)

\* A matchHeaderLine that takes any line starting with "%" for a header.
matchHeaderByPercent(b, more) ==
  IF b = <<>>
  THEN IF more THEN Res("pull", b, "none", FALSE)
               ELSE Res("ok", b, "none", TRUE)
  ELSE Res("ok", b, IF b[1] = "%" THEN "markdown" ELSE "none", FALSE)

matchHeaderLine(b, more) == matchHeaderFrom(1, b, more)

\* BotResponse.skipCodeBlockHeader, trying allLanguages from index i on.
RECURSIVE skipCodeBlockHeaderFrom(_, _, _)
skipCodeBlockHeaderFrom(i, b, more) ==
  IF i > Len(allLanguages) THEN Res("ok", b, FALSE, FALSE)
  ELSE LET r == skipToken(b, CodeBlockHeader(allLanguages[i]), more) IN
       IF r.st = "pull" \/ r.val THEN r
       ELSE LET n == skipCodeBlockHeaderFrom(i + 1, b, more) IN
            Res(n.st, n.b, n.val, n.eof \/ r.eof)

skipCodeBlockHeader(b, more) == skipCodeBlockHeaderFrom(1, b, more)

\* BotResponse.startsWithCodeBlockHeader
RECURSIVE startsWithCodeBlockHeaderFrom(_, _, _)
startsWithCodeBlockHeaderFrom(i, b, more) ==
  IF i > Len(allLanguages) THEN Res("ok", b, FALSE, FALSE)
  ELSE LET r == startsWith(b, CodeBlockHeader(allLanguages[i]), more) IN
       IF r.st = "pull" \/ r.val THEN r
       ELSE LET n == startsWithCodeBlockHeaderFrom(i + 1, b, more) IN
            Res(n.st, n.b, n.val, n.eof \/ r.eof)

startsWithCodeBlockHeader(b, more) == startsWithCodeBlockHeaderFrom(1, b, more)

\* A test for the closing fence that allows nothing after the backquotes.
IsBareFence(line) == line \in {Fence, Fence \o <<NL>>}

\* /^```[ \t]*\n?$/.test(line)
IsClosingFence(line) ==
  /\ IsPrefix(Fence, line)
  /\ LET tail == Drop(line, 3)
         body == IF Len(tail) > 0 /\ tail[Len(tail)] = NL
                 THEN Take(tail, Len(tail) - 1) ELSE tail
     IN \A i \in 1..Len(body) : body[i] \in {" ", "\t"}

----------------------------------------------------------------------------
(* The scanning part of each step of BotResponse.copy.  val is the step's  *)
(* decision.                                                               *)

\* A copy that does not test atEnd before it looks for a header.
beginStepNoEndCheck(b, done, more) == matchHeaderLine(b, more)

\* copy: if (this.atEnd) ... else header = await this.matchHeaderLine()
beginStep(b, done, more) ==
  IF atEnd(b, done) THEN Res("ok", b, "atEnd", FALSE)
  ELSE matchHeaderLine(b, more)

\* A copyMarkdown that ends the cell at any line that starts with "%".
markdownLoopPercentEnds(b, done, more) ==
  IF atEnd(b, done) THEN Res("ok", b, "end", FALSE)
  ELSE IF b = <<>>
       THEN IF more THEN Res("pull", b, "end", FALSE)
                    ELSE Res("ok", b, "end", TRUE)
       ELSE IF b[1] = "%" THEN Res("ok", b, "end", FALSE)
            ELSE LET k == skipCodeBlockHeader(b, more) IN
                 IF k.st = "pull" THEN k
                 ELSE Res("ok", k.b, IF k.val THEN "block" ELSE "line", k.eof)

\* copyMarkdown: while (!atEnd && !await matchHeaderLine()) { if (await
\* skipCodeBlockHeader()) ... else copyLineTo }
markdownLoopStep(b, done, more) ==
  IF atEnd(b, done) THEN Res("ok", b, "end", FALSE)
  ELSE LET h == matchHeaderLine(b, more) IN
       IF h.st = "pull" THEN h
       ELSE IF h.val # "none" THEN Res("ok", b, "end", h.eof)
       ELSE LET k == skipCodeBlockHeader(b, more) IN
            IF k.st = "pull" THEN k
            ELSE Res("ok", k.b, IF k.val THEN "block" ELSE "line",
                     h.eof \/ k.eof)

\* copyCodeBlock: if (atEnd) return; else if (await startsWith("```")) ...
codeBlockLoopStep(b, done, more) ==
  IF atEnd(b, done) THEN Res("ok", b, "return", FALSE)
  ELSE LET r == startsWith(b, Fence, more) IN
       IF r.st = "pull" THEN r
       ELSE Res("ok", b, IF r.val THEN "fence" ELSE "line", r.eof)

\* copyCodeBlock: !atEnd && !await matchHeaderLine() &&
\* !await startsWithCodeBlockHeader()
codeBlockNextStep(b, done, more) ==
  IF atEnd(b, done) THEN Res("ok", b, FALSE, FALSE)
  ELSE LET h == matchHeaderLine(b, more) IN
       IF h.st = "pull" THEN h
       ELSE IF h.val # "none" THEN Res("ok", b, FALSE, h.eof)
       ELSE LET c == startsWithCodeBlockHeader(b, more) IN
            IF c.st = "pull" THEN c
            ELSE Res("ok", b, ~c.val, h.eof \/ c.eof)

\* A copyCodeCell that does not look for a header line.
copyCodeCellNoHeader(b, done, more) ==
  Res("ok", b, IF atEnd(b, done) THEN "end" ELSE "line", FALSE)

\* A copyCodeCell that returns at any line that starts with "%".
copyCodeCellPercentEnds(b, done, more) ==
  IF atEnd(b, done) THEN Res("ok", b, "end", FALSE)
  ELSE IF b = <<>>
       THEN IF more THEN Res("pull", b, "end", FALSE)
                    ELSE Res("ok", b, "end", TRUE)
       ELSE Res("ok", b, IF b[1] = "%" THEN "end" ELSE "line", FALSE)

\* copyCodeCell: while (!atEnd) { if (await matchHeaderLine()) return; ... }
copyCodeCellStep(b, done, more) ==
  IF atEnd(b, done) THEN Res("ok", b, "end", FALSE)
  ELSE LET h == matchHeaderLine(b, more) IN
       IF h.st = "pull" THEN h
       ELSE Res("ok", b, IF h.val # "none" THEN "end" ELSE "line", h.eof)

\* A copyOrAddCue that looks for ": " also when there is no label.
cueSepAlways(b, nm, more) == skipToken(b, CueSep, more)

\* copyOrAddCue: if (name && await skipToken(": "))
cueSepStep(b, nm, more) ==
  IF nm = <<>> THEN Res("ok", b, FALSE, FALSE) ELSE skipToken(b, CueSep, more)

Idle == Res("ok", buffer, FALSE, FALSE)

\* what the code at pc does with the scanner before its next sink call
Scan ==
  LET more == rest # <<>> IN
  CASE pc = "copy" -> skipBlankLines(buffer, more)
    [] pc = "begin" -> beginStep(buffer, inputDone, more)
    [] pc = "skipBlank" -> skipBlankLines(buffer, more)
    [] pc = "copyMarkdown" -> skipCodeBlockHeader(buffer, more)
    [] pc = "cueSpace" -> takeMatchingPrefix(buffer, {" ", "\t"}, more)
    [] pc = "cueLabel" -> takeLabel(buffer, more)
    [] pc = "cueSep" -> cueSepStep(buffer, name, more)
    [] pc = "markdownLoop" -> markdownLoopStep(buffer, inputDone, more)
    [] pc = "copyLineTo" -> takeChunkWithinLine(buffer, more)
    [] pc = "codeBlockLoop" -> codeBlockLoopStep(buffer, inputDone, more)
    [] pc = "fenceLine" -> takeLine(buffer, more)
    [] pc = "codeBlockEnd" -> skipBlankLines(buffer, more)
    [] pc = "codeBlockNext" -> codeBlockNextStep(buffer, inputDone, more)
    [] pc = "copyCodeCell" -> copyCodeCellStep(buffer, inputDone, more)
    [] pc = "afterCell" -> beginStep(buffer, inputDone, more)
    [] OTHER -> Idle

----------------------------------------------------------------------------
(* The sink: a CellWriter that records the cells it is given.  A call it   *)
(* answers with false leaves the record unchanged.                         *)

Written(cs, text) ==
  IF cs = <<>> THEN <<[type |-> "implicit", text |-> text]>>
  ELSE [cs EXCEPT ![Len(cs)].text = @ \o text]

Started(cs, type) == Append(cs, [type |-> type, text |-> <<>>])

\* the answers the sink may give
Answers == IF runNo = 1 THEN BOOLEAN ELSE {TRUE}

SinkWrite(text, ok) ==
  /\ cells' = IF ok THEN Written(cells, text) ELSE cells
  /\ refused' = IF ok THEN refused ELSE refused \cup {"write"}

SinkStart(type, ok) ==
  /\ cells' = IF ok THEN Started(cells, type) ELSE cells
  /\ refused' = IF ok THEN refused
                ELSE refused \cup {IF type = "markdown" THEN "startMarkdownCell"
                                   ELSE "startCodeCell"}

----------------------------------------------------------------------------
(* Errors and promise states of the ChildPipe *)

NoError == [kind |-> "none", exitCode |-> 0, stderr |-> <<>>]

\* what the stdout handler threw (CANCELLED, a stream error, ...)
HandlerError == [kind |-> "handler", exitCode |-> 0, stderr |-> <<>>]

\* the error of child.on("error")
ProcessError == [kind |-> "process", exitCode |-> 0, stderr |-> <<>>]

\* the error of child.stdin.on("error")
StdinError == [kind |-> "stdin", exitCode |-> 0, stderr |-> <<>>]

\* new ChildExitError(path, args, exitCode, stderr)
ChildExitError(code, text) ==
  [kind |-> "ChildExitError", exitCode |-> code, stderr |-> text]

Pending == [state |-> "pending", error |-> NoError]

Resolved(e) == [state |-> "resolved", error |-> e]

Rejected(e) == [state |-> "rejected", error |-> e]

\* the state in which no ChildPipe exists
PipeIdle ==
  /\ impl = "none"
  /\ client = "none"
  /\ proc = "none"
  /\ exitCode = 0
  /\ exitSignal = FALSE
  /\ kills = 0
  /\ stopKills = 0
  /\ seen = {}
  /\ stdoutBuf = <<>>
  /\ handlerGot = <<>>
  /\ handler = "none"
  /\ stderrSent = <<>>
  /\ stderrBuf = <<>>
  /\ stderr = <<>>
  /\ stopCalled = FALSE
  /\ stopped = Pending
  /\ isWriting = FALSE
  /\ writeCalls = 0
  /\ writesOpen = 0
  /\ writeThrew = FALSE
  /\ stdinEnded = FALSE
  /\ closePc = "none"
  /\ closeResult = Pending
  /\ probePc = "none"
  /\ timedOut = FALSE

\* the state in which copyStream has not been called
StreamIdle ==
  /\ mode = "none"
  /\ arrived = <<>>
  /\ srcBuf = <<>>
  /\ srcState = "none"
  /\ endEmitted = FALSE
  /\ destroyed = FALSE
  /\ listening = FALSE
  /\ currentRead = "none"
  /\ streamEnded = FALSE
  /\ streamError = FALSE
  /\ results = <<>>
  /\ readCalls = 0
  /\ csPc = "none"

\* the state in which no rendezvous pipe exists
RvIdle ==
  /\ pimpl = "none"
  /\ readerWaiting = "pending"
  /\ nextRead = <<>>
  /\ isReading = FALSE
  /\ pipeDone = FALSE
  /\ sending = FALSE
  /\ readerPc = "none"
  /\ readsPending = 0
  /\ inflight = <<>>
  /\ readCount = 0
  /\ sendCount = 0
  /\ closed = FALSE
  /\ sent = <<>>
  /\ acks = <<>>
  /\ got = <<>>
  /\ cancelled = FALSE
  /\ readThrew = FALSE
  /\ sendThrew = FALSE
  /\ closeLost = FALSE

\* what a Scanner call or return is recorded as when there is none
NoCall == [op |-> "none", prefix |-> <<>>, pulls |-> 0]

NoReturn == [op |-> "none", val |-> FALSE, before |-> <<>>, chunks |-> <<>>]

\* the state in which no Scanner is driven directly
ScanIdle ==
  /\ source = <<>>
  /\ chunksLeft = <<>>
  /\ scanBuffer = <<>>
  /\ scanInputDone = FALSE
  /\ scanCall = NoCall
  /\ scanLast = NoReturn
  /\ scanCalls = 0
  /\ openReads = <<>>

----------------------------------------------------------------------------
(* The inputs: up to MaxPieces pieces of the wire format, concatenated.    *)

Pieces ==
  { HeaderToken("markdown"),
    HeaderToken("python") \o <<"x", NL>>,
    CodeBlockHeader("python") \o <<"y", NL>> \o Fence \o <<NL>>,
    CodeBlockHeader("python"),
    Fence \o <<"z", NL>>,
    <<"a", ":", " ", "b", NL>>,
    <<"c">>,
    <<" ", NL>> }

RECURSIVE Concats(_)
Concats(n) ==
  IF n = 0 THEN {<<>>}
  ELSE Concats(n - 1) \cup {p \o q : p \in Pieces, q \in Concats(n - 1)}

Inputs == Concats(MaxPieces)

NoPrev == [pc |-> "none", cells |-> <<>>, chunking |-> "none"]

InitParse ==
  /\ PipeIdle
  /\ StreamIdle
  /\ RvIdle
  /\ ScanIdle
  /\ input \in Inputs
  /\ rest = input
  /\ buffer = <<>>
  /\ inputDone = FALSE
  /\ chunking = "none"
  /\ pc = "copy"
  /\ ret = "none"
  /\ header = "none"
  /\ name = <<>>
  /\ cells = <<>>
  /\ refused = {}
  /\ runNo = 1
  /\ prev = NoPrev
  /\ jobs = <<>>
  /\ startPromise = "none"

----------------------------------------------------------------------------
(* Scanner.pull: the operation at pc awaits the Reader, which hands over   *)
(* the next chunk: any non-empty part of what is left, or an empty chunk,  *)
(* which pull() skips.                                                     *)

NextChunking(n) ==
  IF chunking = "none"
  THEN IF n = Len(input) THEN "whole" ELSE IF n = 1 THEN "chars" ELSE "mixed"
  ELSE IF chunking = "chars" /\ n = 1 THEN "chars" ELSE "mixed"

pull ==
  LET r == Scan IN
  /\ r.st = "pull"
  /\ name' = IF pc = "cueLabel" THEN name \o r.val ELSE name
  /\ \/ \E n \in 1..Len(rest) :
          /\ buffer' = r.b \o Take(rest, n)
          /\ rest' = Drop(rest, n)
          /\ chunking' = NextChunking(n)
     \/ /\ buffer' = r.b
        /\ UNCHANGED <<rest, chunking>>
  /\ UNCHANGED <<input, inputDone, pc, ret, header, cells, refused, runNo,
                 prev, jobs, startPromise>>
  /\ UNCHANGED <<pipeVars, streamVars, rvVars, scanVars>>

\* what every finished scanning step does to the Scanner
Scanned(r) ==
  /\ r.st = "ok"
  /\ buffer' = r.b
  /\ inputDone' = (inputDone \/ r.eof)
  /\ UNCHANGED <<input, rest, chunking, runNo, prev, jobs, startPromise>>
  /\ UNCHANGED <<pipeVars, streamVars, rvVars, scanVars>>

----------------------------------------------------------------------------
(* BotResponse.copy, one action per stretch of code between sink calls.    *)

\* A write whose answer is not looked at.
writeUnchecked(ok, next) == next

\* if (!await output.write(...)) { throw CANCELLED; }
writeOrCancel(ok, next) == IF ok THEN next ELSE "cancelled"

Terminal == {"returned", "cancelled", "error"}

\* copy: await this.skipBlankLines()
copy ==
  /\ pc = "copy"
  /\ Scanned(Scan)
  /\ pc' = "begin"
  /\ UNCHANGED <<ret, header, name, cells, refused>>

\* copy: the atEnd test and the first matchHeaderLine
begin ==
  LET r == Scan IN
  /\ pc = "begin"
  /\ Scanned(r)
  /\ pc' = IF r.val = "atEnd" THEN "noResponse"
           ELSE IF r.val = "none" THEN "copyMarkdown" ELSE "startCell"
  /\ header' = IF r.val \in {"atEnd", "none"} THEN header ELSE r.val
  /\ UNCHANGED <<ret, name, cells, refused>>

\* copy: output.write(`${defaultCue}: (no response)`)
noResponse ==
  /\ pc = "noResponse"
  /\ Scanned(Scan)
  /\ \E ok \in Answers :
       /\ SinkWrite(defaultCue \o CueSep \o NoResponse, ok)
       /\ pc' = writeOrCancel(ok, "returned")
  /\ UNCHANGED <<ret, header, name>>

\* A copy that starts a code cell for every header.
cellKindCode(type) == "code"

\* copy: if (header.type === "markdown") startMarkdownCell else startCodeCell
cellKind(type) == IF type = "markdown" THEN "markdown" ELSE "code"

\* copy: this.#stream.skipToken(header.line), then the start call, whose
\* answer is not looked at
startCell ==
  /\ pc = "startCell"
  /\ Scanned(skipToken(buffer, HeaderToken(header), rest # <<>>))
  /\ \E ok \in Answers : SinkStart(cellKind(header), ok)
  /\ pc' = "skipBlank"
  /\ UNCHANGED <<ret, header, name>>

\* copy: await this.skipBlankLines() after the start call
skipBlank ==
  /\ pc = "skipBlank"
  /\ Scanned(Scan)
  /\ pc' = IF header = "markdown" THEN "copyMarkdown" ELSE "copyCodeCell"
  /\ UNCHANGED <<ret, header, name, cells, refused>>

\* copyMarkdown: if (await this.skipCodeBlockHeader())
copyMarkdown ==
  LET r == Scan IN
  /\ pc = "copyMarkdown"
  /\ Scanned(r)
  /\ pc' = IF r.val THEN "copyCodeBlock" ELSE "cueSpace"
  /\ UNCHANGED <<ret, header, name, cells, refused>>

\* copyOrAddCue: await this.#stream.takeMatchingPrefix(" \t")
cueSpace ==
  /\ pc = "cueSpace"
  /\ Scanned(Scan)
  /\ name' = <<>>
  /\ pc' = "cueLabel"
  /\ UNCHANGED <<ret, header, cells, refused>>

\* copyOrAddCue: let name = await takeLabel(this.#stream)
cueLabel ==
  LET r == Scan IN
  /\ pc = "cueLabel"
  /\ Scanned(r)
  /\ name' = name \o r.val
  /\ pc' = "cueSep"
  /\ UNCHANGED <<ret, header, cells, refused>>

\* copyOrAddCue: the cue that is there, or the default cue and the name
copyOrAddCue ==
  LET r == Scan IN
  /\ pc = "cueSep"
  /\ Scanned(r)
  /\ \E ok \in Answers :
       /\ SinkWrite(IF r.val THEN name \o CueSep
                    ELSE defaultCue \o CueSep \o name, ok)
       /\ pc' = writeOrCancel(ok, "markdownLoop")
  /\ UNCHANGED <<ret, header, name>>

\* copyMarkdown: one turn of the while loop
markdownLoop ==
  LET r == Scan IN
  /\ pc = "markdownLoop"
  /\ Scanned(r)
  /\ pc' = CASE r.val = "end" -> "afterCell"
             [] r.val = "block" -> "copyCodeBlock"
             [] r.val = "line" -> "copyLineTo"
  /\ ret' = IF r.val = "line" THEN "markdownLoop" ELSE ret
  /\ UNCHANGED <<header, name, cells, refused>>

\* Scanner.copyLineTo: one turn of its loop
copyLineTo ==
  LET r == Scan IN
  /\ pc = "copyLineTo"
  /\ Scanned(r)
  /\ IF r.val = <<>>
     THEN pc' = ret /\ UNCHANGED <<cells, refused>>
     ELSE \E ok \in Answers :
            /\ SinkWrite(r.val, ok)
            /\ pc' = writeOrCancel(ok, IF r.val[Len(r.val)] = NL THEN ret
                                       ELSE "copyLineTo")
  /\ UNCHANGED <<ret, header, name>>

\* copyCodeBlock: await output.startCodeCell(), whose answer is not looked at
copyCodeBlock ==
  /\ pc = "copyCodeBlock"
  /\ Scanned(Scan)
  /\ \E ok \in Answers : SinkStart("code", ok)
  /\ pc' = "codeBlockLoop"
  /\ UNCHANGED <<ret, header, name>>

\* copyCodeBlock: one turn of the while loop, up to takeLine
codeBlockLoop ==
  LET r == Scan IN
  /\ pc = "codeBlockLoop"
  /\ Scanned(r)
  /\ pc' = CASE r.val = "return" -> "markdownLoop"
             [] r.val = "fence" -> "fenceLine"
             [] r.val = "line" -> "copyLineTo"
  /\ ret' = IF r.val = "line" THEN "codeBlockLoop" ELSE ret
  /\ UNCHANGED <<header, name, cells, refused>>

\* copyCodeBlock: const line = await takeLine(); the closing fence ends the
\* block, any other line is written
fenceLine ==
  LET r == Scan IN
  /\ pc = "fenceLine"
  /\ Scanned(r)
  /\ IF IsClosingFence(r.val)
     THEN pc' = "codeBlockEnd" /\ UNCHANGED <<cells, refused>>
     ELSE \E ok \in Answers :
            /\ SinkWrite(r.val, ok)
            /\ pc' = writeOrCancel(ok, "codeBlockLoop")
  /\ UNCHANGED <<ret, header, name>>

\* copyCodeBlock: await this.skipBlankLines() after the closing fence
codeBlockEnd ==
  /\ pc = "codeBlockEnd"
  /\ Scanned(Scan)
  /\ pc' = "codeBlockNext"
  /\ UNCHANGED <<ret, header, name, cells, refused>>

\* copyCodeBlock: a new markdown cell if text follows
codeBlockNext ==
  LET r == Scan IN
  /\ pc = "codeBlockNext"
  /\ Scanned(r)
  /\ IF r.val
     THEN /\ \E ok \in Answers : SinkStart("markdown", ok)
          /\ pc' = "cueSpace"
     ELSE /\ pc' = "markdownLoop"
          /\ UNCHANGED <<cells, refused>>
  /\ UNCHANGED <<ret, header, name>>

\* copyCodeCell: one turn of the while loop
copyCodeCell ==
  LET r == Scan IN
  /\ pc = "copyCodeCell"
  /\ Scanned(r)
  /\ pc' = IF r.val = "end" THEN "afterCell" ELSE "copyLineTo"
  /\ ret' = IF r.val = "line" THEN "copyCodeCell" ELSE ret
  /\ UNCHANGED <<header, name, cells, refused>>

\* copy: after a cell, return at the end or match the next header
afterCell ==
  LET r == Scan IN
  /\ pc = "afterCell"
  /\ Scanned(r)
  /\ pc' = IF r.val = "atEnd" THEN "returned"
           ELSE IF r.val = "none" THEN "error" ELSE "startCell"
  /\ header' = IF r.val \in {"atEnd", "none"} THEN header ELSE r.val
  /\ UNCHANGED <<ret, name, cells, refused>>

\* The same input is parsed again by a new BotResponse, with a Reader that
\* is free to split it differently.
secondDelivery ==
  /\ pc \in Terminal
  /\ runNo = 1
  /\ refused = {}
  /\ runNo' = 2
  /\ prev' = [pc |-> pc, cells |-> cells, chunking |-> chunking]
  /\ rest' = input
  /\ buffer' = <<>>
  /\ inputDone' = FALSE
  /\ chunking' = "none"
  /\ pc' = "copy"
  /\ ret' = "none"
  /\ header' = "none"
  /\ name' = <<>>
  /\ cells' = <<>>
  /\ UNCHANGED <<input, refused, jobs, startPromise>>
  /\ UNCHANGED <<pipeVars, streamVars, rvVars, scanVars>>

NextParse ==
  \/ pull
  \/ copy \/ begin \/ noResponse \/ startCell \/ skipBlank
  \/ copyMarkdown \/ cueSpace \/ cueLabel \/ copyOrAddCue \/ markdownLoop
  \/ copyLineTo \/ copyCodeBlock \/ codeBlockLoop \/ fenceLine
  \/ codeBlockEnd \/ codeBlockNext \/ copyCodeCell \/ afterCell
  \/ secondDelivery

SpecParse == InitParse /\ [][NextParse]_vars

----------------------------------------------------------------------------
(* ChildPipe: one child process, its stdout handler, its stderr reader,    *)
(* the listeners set up by the constructor, and write(), close(), kill().  *)
(* Two sources of the class are modelled: impl = "processes" keeps the     *)
(* outcome of #stop in #stopError and always resolves it; impl =           *)
(* "part_020" keeps it in #stopped and rejects it when #stop got an error. *)

ExitCodes == {0, 1, 2}

\* what #stop updates
StopState ==
  [stopCalled |-> stopCalled, stopped |-> stopped, kills |-> kills,
   stopKills |-> stopKills]

\* this.#stopError.resolve(error), or #stopped.reject(error) / .resolve()
Settled(error) ==
  IF impl = "processes" THEN Resolved(error)
  ELSE IF error # NoError THEN Rejected(error) ELSE Resolved(NoError)

\* A #stop without the #stopCalled guard.
stopUnguarded(st, error) ==
  [stopCalled |-> TRUE,
   stopped |-> IF st.stopped.state = "pending" THEN Settled(error)
               ELSE st.stopped,
   kills |-> st.kills + 1,
   stopKills |-> st.stopKills + 1]

\* ChildPipe.#stop(reason, error), as a function of the state it updates
stop(st, error) ==
  IF st.stopCalled THEN st
  ELSE [stopCalled |-> TRUE, stopped |-> Settled(error),
        kills |-> st.kills + 1, stopKills |-> st.stopKills + 1]

\* ChildPipe.#throwExitError(code)
throwExitError(st, code) == stop(st, ChildExitError(code, stderr))

ApplyStop(st) ==
  /\ stopCalled' = st.stopCalled
  /\ stopped' = st.stopped
  /\ kills' = st.kills
  /\ stopKills' = st.stopKills

\* child.on("exit") and child.on("close"): if (signal) #stop(reason);
\* else if (code !== null && code !== 0) #throwExitError(code)
exitListener(st) ==
  IF exitSignal THEN stop(st, NoError)
  ELSE IF exitCode # 0 THEN throwExitError(st, exitCode)
  ELSE st

\* close(): a handler error is thrown whatever #stop recorded.
\* This one lets the error of #stop go first.
stopErrorFirst(e, st) ==
  IF st.error # NoError THEN Rejected(st.error) ELSE Rejected(e)

\* close(): the handler's exception e is thrown, whatever #stop recorded
handlerErrorFirst(e, st) == Rejected(e)

\* close(): after the handler returned, the outcome of #stop decides
afterHandlerReturned(st) ==
  IF impl = "processes"
  THEN IF st.error # NoError THEN Rejected(st.error) ELSE Resolved(NoError)
  ELSE IF st.state = "rejected" THEN Rejected(st.error) ELSE Resolved(NoError)

ParseIdle ==
  /\ input = <<>>
  /\ rest = <<>>
  /\ buffer = <<>>
  /\ inputDone = FALSE
  /\ chunking = "none"
  /\ pc = "none"
  /\ ret = "none"
  /\ header = "none"
  /\ name = <<>>
  /\ cells = <<>>
  /\ refused = {}
  /\ runNo = 0
  /\ prev = NoPrev
  /\ jobs = <<>>
  /\ startPromise = "none"

\* new ChildPipe(path, args, handler); for the probe, checkCommandPath has
\* also called child.close() and armed its timer
InitPipe ==
  /\ ParseIdle
  /\ StreamIdle
  /\ RvIdle
  /\ ScanIdle
  /\ impl \in {"processes", "part_020"}
  /\ client \in {"run", "probe"}
  /\ proc = "running"
  /\ exitCode = 0
  /\ exitSignal = FALSE
  /\ kills = 0
  /\ stopKills = 0
  /\ seen = {}
  /\ stdoutBuf = <<>>
  /\ handlerGot = <<>>
  /\ handler = "running"
  /\ stderrSent = <<>>
  /\ stderrBuf = <<>>
  /\ stderr = <<>>
  /\ stopCalled = FALSE
  /\ stopped = Pending
  /\ isWriting = FALSE
  /\ writeCalls = 0
  /\ writesOpen = 0
  /\ writeThrew = FALSE
  /\ stdinEnded = (client = "probe")
  /\ closePc = IF client = "probe" THEN "handler" ELSE "none"
  /\ closeResult = Pending
  /\ probePc = IF client = "probe" THEN "racing" ELSE "none"
  /\ timedOut = FALSE

(* The child process *)

\* the child writes a chunk to its stdout
childStdout ==
  /\ proc = "running"
  /\ handler = "running"
  /\ Len(handlerGot) + Len(stdoutBuf) < MaxStdout
  /\ stdoutBuf' = Append(stdoutBuf, <<"out", Len(handlerGot) + Len(stdoutBuf) + 1>>)
  /\ UNCHANGED <<impl, client, proc, exitCode, exitSignal,
                 kills, stopKills, seen, handlerGot, handler,
                 stderrSent, stderrBuf, stderr, stopCalled,
                 stopped, isWriting, writeCalls, writesOpen,
                 writeThrew, stdinEnded, closePc, closeResult,
                 probePc, timedOut>>
  /\ UNCHANGED <<parseVars, streamVars, rvVars, scanVars>>

\* the child writes a chunk to its stderr
childStderr ==
  /\ proc = "running"
  /\ Len(stderrSent) < MaxStderr
  /\ stderrSent' = Append(stderrSent, <<"err", Len(stderrSent) + 1>>)
  /\ stderrBuf' = Append(stderrBuf, <<"err", Len(stderrSent) + 1>>)
  /\ UNCHANGED <<impl, client, proc, exitCode, exitSignal,
                 kills, stopKills, seen, stdoutBuf,
                 handlerGot, handler, stderr, stopCalled,
                 stopped, isWriting, writeCalls, writesOpen,
                 writeThrew, stdinEnded, closePc, closeResult,
                 probePc, timedOut>>
  /\ UNCHANGED <<parseVars, streamVars, rvVars, scanVars>>

\* the child exits on its own
childExit ==
  /\ proc = "running"
  /\ proc' = "exited"
  /\ exitCode' \in ExitCodes
  /\ UNCHANGED <<impl, client, exitSignal, kills, stopKills,
                 seen, stdoutBuf, handlerGot, handler,
                 stderrSent, stderrBuf, stderr, stopCalled,
                 stopped, isWriting, writeCalls, writesOpen,
                 writeThrew, stdinEnded, closePc, closeResult,
                 probePc, timedOut>>
  /\ UNCHANGED <<parseVars, streamVars, rvVars, scanVars>>

\* a kill signal ends the child
childKilled ==
  /\ proc = "running"
  /\ kills > 0
  /\ proc' = "exited"
  /\ exitSignal' = TRUE
  /\ UNCHANGED <<impl, client, exitCode, kills, stopKills,
                 seen, stdoutBuf, handlerGot, handler,
                 stderrSent, stderrBuf, stderr, stopCalled,
                 stopped, isWriting, writeCalls, writesOpen,
                 writeThrew, stdinEnded, closePc, closeResult,
                 probePc, timedOut>>
  /\ UNCHANGED <<parseVars, streamVars, rvVars, scanVars>>

(* The listeners of the constructor *)

\* child.on("error", err => this.#stop("process emitted an error", err)):
\* the process could not be spawned (then there is no "exit", and "close"
\* reports a negative code), or it could not be killed
onError ==
  /\ proc = "running"
  /\ "error" \notin seen
  /\ \/ /\ seen = {}
        /\ kills = 0
        /\ stderrSent = <<>>
        /\ stdoutBuf = <<>>
        /\ handlerGot = <<>>
        /\ proc' = "failed"
        /\ exitCode' = -1
     \/ /\ kills > 0
        /\ UNCHANGED <<proc, exitCode>>
  /\ seen' = seen \cup {"error"}
  /\ ApplyStop(stop(StopState, ProcessError))
  /\ UNCHANGED <<impl, client, exitSignal, stdoutBuf, handlerGot, handler,
                 stderrSent, stderrBuf, stderr, isWriting, writeCalls,
                 writesOpen, writeThrew, stdinEnded, closePc, closeResult,
                 probePc, timedOut>>
  /\ UNCHANGED <<parseVars, streamVars, rvVars, scanVars>>

\* child.stdin.on("error", err => this.#stop("stdin emitted an error", err))
\* after data was written to a pipe the child no longer reads (EPIPE)
onStdinError ==
  /\ writeCalls > 0
  /\ "stdinError" \notin seen
  /\ seen' = seen \cup {"stdinError"}
  /\ ApplyStop(stop(StopState, StdinError))
  /\ UNCHANGED <<impl, client, proc, exitCode, exitSignal,
                 stdoutBuf, handlerGot, handler, stderrSent,
                 stderrBuf, stderr, isWriting, writeCalls,
                 writesOpen, writeThrew, stdinEnded, closePc,
                 closeResult, probePc, timedOut>>
  /\ UNCHANGED <<parseVars, streamVars, rvVars, scanVars>>

\* child.on("exit", ...): the process has ended; its stdio may still hold
\* unread data
onExit ==
  /\ proc = "exited"
  /\ "exit" \notin seen
  /\ seen' = seen \cup {"exit"}
  /\ ApplyStop(exitListener(StopState))
  /\ UNCHANGED <<impl, client, proc, exitCode, exitSignal,
                 stdoutBuf, handlerGot, handler, stderrSent,
                 stderrBuf, stderr, isWriting, writeCalls,
                 writesOpen, writeThrew, stdinEnded, closePc,
                 closeResult, probePc, timedOut>>
  /\ UNCHANGED <<parseVars, streamVars, rvVars, scanVars>>

\* child.on("close", ...): the process has ended and its stdio streams are
\* closed; the listener ends with this.#stop()
onClose ==
  /\ "exit" \in seen \/ (proc = "failed" /\ "error" \in seen)
  /\ "close" \notin seen
  /\ handler # "running" \/ stdoutBuf = <<>>
  /\ stderrBuf = <<>>
  /\ seen' = seen \cup {"close"}
  /\ ApplyStop(stop(exitListener(StopState), NoError))
  /\ UNCHANGED <<impl, client, proc, exitCode, exitSignal,
                 stdoutBuf, handlerGot, handler, stderrSent,
                 stderrBuf, stderr, isWriting, writeCalls,
                 writesOpen, writeThrew, stdinEnded, closePc,
                 closeResult, probePc, timedOut>>
  /\ UNCHANGED <<parseVars, streamVars, rvVars, scanVars>>

\* the stderr reader: this.#stderr += chunk
stderrRead ==
  /\ stderrBuf # <<>>
  /\ stderr' = Append(stderr, Head(stderrBuf))
  /\ stderrBuf' = Tail(stderrBuf)
  /\ UNCHANGED <<impl, client, proc, exitCode, exitSignal,
                 kills, stopKills, seen, stdoutBuf,
                 handlerGot, handler, stderrSent, stopCalled,
                 stopped, isWriting, writeCalls, writesOpen,
                 writeThrew, stdinEnded, closePc, closeResult,
                 probePc, timedOut>>
  /\ UNCHANGED <<parseVars, streamVars, rvVars, scanVars>>

(* The stdout handler, run by copyStream *)

\* the handler reads a chunk of stdout
handlerRead ==
  /\ handler = "running"
  /\ stdoutBuf # <<>>
  /\ handlerGot' = Append(handlerGot, Head(stdoutBuf))
  /\ stdoutBuf' = Tail(stdoutBuf)
  /\ UNCHANGED <<impl, client, proc, exitCode, exitSignal,
                 kills, stopKills, seen, handler, stderrSent,
                 stderrBuf, stderr, stopCalled, stopped,
                 isWriting, writeCalls, writesOpen,
                 writeThrew, stdinEnded, closePc, closeResult,
                 probePc, timedOut>>
  /\ UNCHANGED <<parseVars, streamVars, rvVars, scanVars>>

\* the handler returns, at the end of stdout or before; copyStream
\* destroys the stream
handlerReturn ==
  /\ handler = "running"
  /\ handler' = "returned"
  /\ stdoutBuf' = <<>>
  /\ UNCHANGED <<impl, client, proc, exitCode, exitSignal,
                 kills, stopKills, seen, handlerGot,
                 stderrSent, stderrBuf, stderr, stopCalled,
                 stopped, isWriting, writeCalls, writesOpen,
                 writeThrew, stdinEnded, closePc, closeResult,
                 probePc, timedOut>>
  /\ UNCHANGED <<parseVars, streamVars, rvVars, scanVars>>

\* the handler throws; copyStream destroys the stream
handlerThrow ==
  /\ handler = "running"
  /\ handler' = "threw"
  /\ stdoutBuf' = <<>>
  /\ UNCHANGED <<impl, client, proc, exitCode, exitSignal,
                 kills, stopKills, seen, handlerGot,
                 stderrSent, stderrBuf, stderr, stopCalled,
                 stopped, isWriting, writeCalls, writesOpen,
                 writeThrew, stdinEnded, closePc, closeResult,
                 probePc, timedOut>>
  /\ UNCHANGED <<parseVars, streamVars, rvVars, scanVars>>

(* write(), close() and kill() *)

\* ChildPipe.write(data).  The promise is returned, not awaited, inside
\* try/finally, so #isWriting is false again when write() has returned;
\* when stdin.write() answers false the promise waits for "drain".
write ==
  /\ client = "run"
  /\ closePc = "none"
  /\ writeCalls < MaxWrites
  /\ writeCalls' = writeCalls + 1
  /\ IF isWriting
     THEN writeThrew' = TRUE /\ UNCHANGED <<isWriting, writesOpen>>
     ELSE /\ \E accepted \in BOOLEAN :
               writesOpen' = IF accepted THEN writesOpen ELSE writesOpen + 1
          /\ isWriting' = FALSE
          /\ UNCHANGED writeThrew
  /\ UNCHANGED <<impl, client, proc, exitCode, exitSignal,
                 kills, stopKills, seen, stdoutBuf,
                 handlerGot, handler, stderrSent, stderrBuf,
                 stderr, stopCalled, stopped, stdinEnded,
                 closePc, closeResult, probePc, timedOut>>
  /\ UNCHANGED <<parseVars, streamVars, rvVars, scanVars>>

\* stdin emits "drain": the waiting write() promises resolve
onDrain ==
  /\ writesOpen > 0
  /\ writesOpen' = 0
  /\ UNCHANGED <<impl, client, proc, exitCode, exitSignal,
                 kills, stopKills, seen, stdoutBuf,
                 handlerGot, handler, stderrSent, stderrBuf,
                 stderr, stopCalled, stopped, isWriting,
                 writeCalls, writeThrew, stdinEnded, closePc,
                 closeResult, probePc, timedOut>>
  /\ UNCHANGED <<parseVars, streamVars, rvVars, scanVars>>

\* ChildPipe.close(): this.#child.stdin.end(), then await the handler
close ==
  /\ client = "run"
  /\ closePc = "none"
  /\ stdinEnded' = TRUE
  /\ closePc' = "handler"
  /\ UNCHANGED <<impl, client, proc, exitCode, exitSignal,
                 kills, stopKills, seen, stdoutBuf,
                 handlerGot, handler, stderrSent, stderrBuf,
                 stderr, stopCalled, stopped, isWriting,
                 writeCalls, writesOpen, writeThrew,
                 closeResult, probePc, timedOut>>
  /\ UNCHANGED <<parseVars, streamVars, rvVars, scanVars>>

\* close(): the handler has settled.  processes.ts: a throw runs the
\* finally (#stop) and leaves; part_020: a throw waits for #stopped first.
closeHandlerDone ==
  /\ closePc = "handler"
  /\ handler \in {"returned", "threw"}
  /\ IF handler = "threw" /\ impl = "processes"
     THEN /\ closeResult' = handlerErrorFirst(HandlerError, stopped)
          /\ closePc' = "settled"
          /\ ApplyStop(stop(StopState, NoError))
     ELSE /\ closePc' = IF handler = "threw" THEN "stoppedAfterThrow"
                       ELSE "stopped"
          /\ UNCHANGED <<closeResult, stopCalled, stopped, kills, stopKills>>
  /\ UNCHANGED <<impl, client, proc, exitCode, exitSignal,
                 seen, stdoutBuf, handlerGot, handler,
                 stderrSent, stderrBuf, stderr, isWriting,
                 writeCalls, writesOpen, writeThrew,
                 stdinEnded, probePc, timedOut>>
  /\ UNCHANGED <<parseVars, streamVars, rvVars, scanVars>>

\* close(): the Completer of #stop has settled
closeStopped ==
  /\ closePc \in {"stopped", "stoppedAfterThrow"}
  /\ stopped.state # "pending"
  /\ closeResult' = IF closePc = "stoppedAfterThrow"
                    THEN handlerErrorFirst(HandlerError, stopped)
                    ELSE afterHandlerReturned(stopped)
  /\ closePc' = "settled"
  /\ ApplyStop(IF impl = "processes" THEN stop(StopState, NoError)
               ELSE StopState)
  /\ UNCHANGED <<impl, client, proc, exitCode, exitSignal,
                 seen, stdoutBuf, handlerGot, handler,
                 stderrSent, stderrBuf, stderr, isWriting,
                 writeCalls, writesOpen, writeThrew,
                 stdinEnded, probePc, timedOut>>
  /\ UNCHANGED <<parseVars, streamVars, rvVars, scanVars>>

\* ChildPipe.kill(), called by the owner of the pipe
kill ==
  /\ client = "run"
  /\ proc \in {"running", "exited"}
  /\ kills = stopKills
  /\ kills' = kills + 1
  /\ UNCHANGED <<impl, client, proc, exitCode, exitSignal,
                 stopKills, seen, stdoutBuf, handlerGot,
                 handler, stderrSent, stderrBuf, stderr,
                 stopCalled, stopped, isWriting, writeCalls,
                 writesOpen, writeThrew, stdinEnded, closePc,
                 closeResult, probePc, timedOut>>
  /\ UNCHANGED <<parseVars, streamVars, rvVars, scanVars>>

(* Service.checkCommandPath: Promise.race([child.close(), timeout]) *)

\* the timer fires first: the timeout promise rejects with TIMEOUT, the
\* race rejects, and the catch block returns ""
timeout ==
  /\ probePc = "racing"
  /\ closePc # "settled"
  /\ timedOut' = TRUE
  /\ probePc' = "returned"
  /\ UNCHANGED <<impl, client, proc, exitCode, exitSignal,
                 kills, stopKills, seen, stdoutBuf,
                 handlerGot, handler, stderrSent, stderrBuf,
                 stderr, stopCalled, stopped, isWriting,
                 writeCalls, writesOpen, writeThrew,
                 stdinEnded, closePc, closeResult>>
  /\ UNCHANGED <<parseVars, streamVars, rvVars, scanVars>>

\* close() settles first: the path is returned, or "" after an error
probeDone ==
  /\ probePc = "racing"
  /\ closePc = "settled"
  /\ probePc' = "returned"
  /\ UNCHANGED <<impl, client, proc, exitCode, exitSignal,
                 kills, stopKills, seen, stdoutBuf,
                 handlerGot, handler, stderrSent, stderrBuf,
                 stderr, stopCalled, stopped, isWriting,
                 writeCalls, writesOpen, writeThrew,
                 stdinEnded, closePc, closeResult, timedOut>>
  /\ UNCHANGED <<parseVars, streamVars, rvVars, scanVars>>

NextPipe ==
  \/ childStdout \/ childStderr \/ childExit \/ childKilled
  \/ onError \/ onStdinError \/ onExit \/ onClose \/ stderrRead
  \/ handlerRead \/ handlerReturn \/ handlerThrow
  \/ write \/ onDrain \/ close \/ closeHandlerDone \/ closeStopped \/ kill
  \/ timeout \/ probeDone

SpecPipe == InitPipe /\ [][NextPipe]_vars

----------------------------------------------------------------------------
(* copyStream(source, dest): a Node Readable is handed to the handler dest *)
(* through a Reader adapter.  Chunks are numbered in arrival order.        *)

MaxChunks == 2

MaxReads == 4

ChunkResult(text) == [kind |-> "chunk", text |-> text]

\* read() resolved with DONE
DoneResult == [kind |-> "DONE", text |-> <<>>]

\* read() rejected with the error of the stream
ErrorResult == [kind |-> "error", text |-> <<>>]

\* source.read(): one chunk of an object stream, everything buffered of a
\* byte stream, null (here the empty chunk) when nothing is buffered
sourceRead(buf) ==
  IF buf = <<>> THEN [chunk |-> <<>>, left |-> <<>>]
  ELSE IF mode = "object" THEN [chunk |-> <<Head(buf)>>, left |-> Tail(buf)]
  ELSE [chunk |-> buf, left |-> <<>>]

\* An onReadable that reads from the source whether or not a read is pending.
readableAlways(cur) == TRUE

\* onReadable: if (currentRead)
readableWanted(cur) == cur = "pending"

\* An adapter that does not look at streamError.
readOutcomeNoError(ended, err, buf) ==
  IF ended THEN "DONE" ELSE IF buf # <<>> THEN "chunk" ELSE "wait"

\* An adapter that does not look at streamEnded.
readOutcomeNoEnd(ended, err, buf) ==
  IF err THEN "error" ELSE IF buf # <<>> THEN "chunk" ELSE "wait"

\* adapter.read(): which branch answers the call
readOutcome(ended, err, buf) ==
  IF ended THEN "DONE"
  ELSE IF err THEN "error"
  ELSE IF buf # <<>> THEN "chunk"
  ELSE "wait"

\* A finally block that removes the listeners and leaves the source open.
finallyKeepsSource == [listening |-> FALSE, destroyed |-> FALSE]

\* the finally block of copyStream: removeListener three times, destroy()
finallyState == [listening |-> FALSE, destroyed |-> TRUE]

\* copyStream has attached its listeners and called dest(adapter)
InitStream ==
  /\ ParseIdle
  /\ PipeIdle
  /\ RvIdle
  /\ ScanIdle
  /\ mode \in {"object", "bytes"}
  /\ arrived = <<>>
  /\ srcBuf = <<>>
  /\ srcState = "open"
  /\ endEmitted = FALSE
  /\ destroyed = FALSE
  /\ listening = TRUE
  /\ currentRead = "none"
  /\ streamEnded = FALSE
  /\ streamError = FALSE
  /\ results = <<>>
  /\ readCalls = 0
  /\ csPc = "running"

\* a chunk arrives in the source
sourcePush ==
  /\ srcState = "open"
  /\ ~destroyed
  /\ Len(arrived) < MaxChunks
  /\ arrived' = Append(arrived, Len(arrived) + 1)
  /\ srcBuf' = Append(srcBuf, Len(arrived) + 1)
  /\ UNCHANGED <<mode, srcState, endEmitted, destroyed,
                 listening, currentRead, streamEnded,
                 streamError, results, readCalls, csPc>>
  /\ UNCHANGED <<parseVars, pipeVars, rvVars, scanVars>>

\* the source reaches its end: no more chunks arrive
sourceEof ==
  /\ srcState = "open"
  /\ ~destroyed
  /\ srcState' = "ended"
  /\ UNCHANGED <<mode, arrived, srcBuf, endEmitted, destroyed,
                 listening, currentRead, streamEnded,
                 streamError, results, readCalls, csPc>>
  /\ UNCHANGED <<parseVars, pipeVars, rvVars, scanVars>>

\* the "readable" listener: data is buffered, or the end has been reached
onReadable ==
  /\ listening
  /\ ~destroyed
  /\ srcState \in {"open", "ended"}
  /\ srcBuf # <<>> \/ srcState = "ended"
  /\ IF readableWanted(currentRead)
     THEN /\ srcBuf' = sourceRead(srcBuf).left
          /\ IF sourceRead(srcBuf).chunk # <<>> /\ currentRead = "pending"
             THEN /\ results' = Append(results,
                                       ChunkResult(sourceRead(srcBuf).chunk))
                  /\ currentRead' = "none"
             ELSE UNCHANGED <<results, currentRead>>
     ELSE UNCHANGED <<srcBuf, results, currentRead>>
  /\ UNCHANGED <<mode, arrived, srcState, endEmitted,
                 destroyed, listening, streamEnded,
                 streamError, readCalls, csPc>>
  /\ UNCHANGED <<parseVars, pipeVars, rvVars, scanVars>>

\* the "end" listener: the source has ended and all its data was read
onEnd ==
  /\ listening
  /\ ~destroyed
  /\ srcState = "ended"
  /\ srcBuf = <<>>
  /\ ~endEmitted
  /\ endEmitted' = TRUE
  /\ streamEnded' = TRUE
  /\ IF currentRead = "pending"
     THEN /\ results' = Append(results, DoneResult)
          /\ currentRead' = "none"
     ELSE UNCHANGED <<results, currentRead>>
  /\ UNCHANGED <<mode, arrived, srcBuf, srcState, destroyed,
                 listening, streamError, readCalls, csPc>>
  /\ UNCHANGED <<parseVars, pipeVars, rvVars, scanVars>>

\* the "error" listener: the source fails, which ends it and discards what
\* it had buffered
onStreamError ==
  /\ listening
  /\ ~destroyed
  /\ srcState \in {"open", "ended"}
  /\ ~endEmitted
  /\ srcState' = "errored"
  /\ srcBuf' = <<>>
  /\ streamError' = TRUE
  /\ IF currentRead = "pending"
     THEN /\ results' = Append(results, ErrorResult)
          /\ currentRead' = "none"
     ELSE UNCHANGED <<results, currentRead>>
  /\ UNCHANGED <<mode, arrived, endEmitted, destroyed,
                 listening, streamEnded, readCalls, csPc>>
  /\ UNCHANGED <<parseVars, pipeVars, rvVars, scanVars>>

\* adapter.read(), called by a handler that awaits each read
adapterRead ==
  /\ csPc = "running"
  /\ currentRead = "none"
  /\ readCalls < MaxReads
  /\ readCalls' = readCalls + 1
  /\ LET o == readOutcome(streamEnded, streamError,
                          IF destroyed THEN <<>> ELSE srcBuf)
     IN CASE o = "DONE" ->
               /\ results' = Append(results, DoneResult)
               /\ UNCHANGED <<srcBuf, currentRead>>
          [] o = "error" ->
               /\ results' = Append(results, ErrorResult)
               /\ UNCHANGED <<srcBuf, currentRead>>
          [] o = "chunk" ->
               /\ results' = Append(results,
                                    ChunkResult(sourceRead(srcBuf).chunk))
               /\ srcBuf' = sourceRead(srcBuf).left
               /\ UNCHANGED currentRead
          [] o = "wait" ->
               /\ currentRead' = "pending"
               /\ UNCHANGED <<srcBuf, results>>
  /\ UNCHANGED <<mode, arrived, srcState, endEmitted,
                 destroyed, listening, streamEnded,
                 streamError, csPc>>
  /\ UNCHANGED <<parseVars, pipeVars, rvVars, scanVars>>

\* dest returns, at the end of the stream or before
destReturns ==
  /\ csPc = "running"
  /\ currentRead = "none"
  /\ csPc' = "returned"
  /\ UNCHANGED <<mode, arrived, srcBuf, srcState, endEmitted,
                 destroyed, listening, currentRead,
                 streamEnded, streamError, results, readCalls>>
  /\ UNCHANGED <<parseVars, pipeVars, rvVars, scanVars>>

\* dest throws
destThrows ==
  /\ csPc = "running"
  /\ currentRead = "none"
  /\ csPc' = "threw"
  /\ UNCHANGED <<mode, arrived, srcBuf, srcState, endEmitted,
                 destroyed, listening, currentRead,
                 streamEnded, streamError, results, readCalls>>
  /\ UNCHANGED <<parseVars, pipeVars, rvVars, scanVars>>

\* copyStream's finally block, then its promise settles
copyStreamFinally ==
  /\ csPc \in {"returned", "threw"}
  /\ listening' = finallyState.listening
  /\ destroyed' = finallyState.destroyed
  /\ csPc' = "done"
  /\ UNCHANGED <<mode, arrived, srcBuf, srcState, endEmitted,
                 currentRead, streamEnded, streamError,
                 results, readCalls>>
  /\ UNCHANGED <<parseVars, pipeVars, rvVars, scanVars>>

NextStream ==
  \/ sourcePush \/ sourceEof \/ onReadable \/ onEnd \/ onStreamError
  \/ adapterRead \/ destReturns \/ destThrows \/ copyStreamFinally

SpecStream == InitStream /\ [][NextStream]_vars

\* Node delivers the events it has to emit: "readable" while data is
\* buffered or the end was reached, "end" once everything was read
SpecStreamLive ==
  InitStream /\ [][NextStream]_vars /\ WF_vars(onReadable) /\ WF_vars(onEnd)

----------------------------------------------------------------------------
(* The rendezvous pipe: makePipe() with reader.read, reader.cancel,        *)
(* writer.write and writer.close, and ParserWriter, whose reading side is  *)
(* a parser that disconnects by exiting.  Values are numbered in the order *)
(* of the write calls.                                                     *)

MaxSends == 3

MaxPipeReads == 3

DONE == "DONE"

\* the data of the k-th write
Value(k) ==
  CASE k = 1 -> "v1" [] k = 2 -> "v2" [] k = 3 -> "v3" [] OTHER -> "v4"

\* Completer.resolve(v): the first call settles the promise, later calls do
\* nothing
resolveWith(cur, v) == IF cur = "pending" THEN v ELSE cur

\* A guard that never finds the pipe busy.
neverBusy(flag) == FALSE

\* if (isReading) throw ... / if (sending) throw ...
busy(flag) == flag

\* A send that does not wait for the reader: it goes on as if a read had
\* been called.
readerAnswerAtOnce(rw) == IF rw = "pending" THEN "true" ELSE rw

\* await readerWaiting.promise: what send learns when it resumes
readerAnswer(rw) == rw

\* makePipe() has returned, or new ParserWriter(parse) has started the parser
InitRv ==
  /\ ParseIdle
  /\ PipeIdle
  /\ StreamIdle
  /\ ScanIdle
  /\ pimpl \in {"makePipe", "ParserWriter"}
  /\ readerWaiting = "pending"
  /\ nextRead = <<>>
  /\ isReading = FALSE
  /\ pipeDone = FALSE
  /\ sending = FALSE
  /\ readerPc = "reading"
  /\ readsPending = 0
  /\ inflight = <<>>
  /\ readCount = 0
  /\ sendCount = 0
  /\ closed = FALSE
  /\ sent = <<>>
  /\ acks = <<>>
  /\ got = <<>>
  /\ cancelled = FALSE
  /\ readThrew = FALSE
  /\ sendThrew = FALSE
  /\ closeLost = FALSE

\* reader.read(), up to its await
read ==
  /\ readerPc = "reading"
  /\ readCount < MaxPipeReads
  /\ readCount' = readCount + 1
  /\ IF busy(isReading)
     THEN /\ readThrew' = TRUE
          /\ UNCHANGED <<got, readerPc, isReading, readerWaiting,
                         readsPending>>
     ELSE IF pipeDone
     THEN /\ got' = Append(got, DONE)
          /\ readerPc' = "finished"
          /\ UNCHANGED <<readThrew, isReading, readerWaiting, readsPending>>
     ELSE /\ isReading' = TRUE
          /\ readerWaiting' = resolveWith(readerWaiting, "true")
          /\ readsPending' = readsPending + 1
          /\ UNCHANGED <<readThrew, got, readerPc>>
  /\ UNCHANGED <<pimpl, nextRead, pipeDone, sending, inflight,
                 sendCount, closed, sent, acks, cancelled,
                 sendThrew, closeLost>>
  /\ UNCHANGED <<parseVars, pipeVars, streamVars, scanVars>>

\* reader.read() after its await: nextRead has been resolved
readResumes ==
  /\ readsPending > 0
  /\ nextRead # <<>>
  /\ got' = Append(got, nextRead[1])
  /\ nextRead' = <<>>
  /\ isReading' = FALSE
  /\ readsPending' = readsPending - 1
  /\ readerPc' = IF nextRead[1] = DONE /\ readerPc = "reading"
                 THEN "finished" ELSE readerPc
  /\ UNCHANGED <<pimpl, readerWaiting, pipeDone, sending,
                 inflight, readCount, sendCount, closed, sent,
                 acks, cancelled, readThrew, sendThrew,
                 closeLost>>
  /\ UNCHANGED <<parseVars, pipeVars, streamVars, scanVars>>

\* reader.cancel()
cancel ==
  /\ pimpl = "makePipe"
  /\ ~cancelled
  /\ readerWaiting' = resolveWith(readerWaiting, "false")
  /\ nextRead' = IF nextRead = <<>> THEN <<DONE>> ELSE nextRead
  /\ pipeDone' = TRUE
  /\ cancelled' = TRUE
  /\ UNCHANGED <<pimpl, isReading, sending, readerPc,
                 readsPending, inflight, readCount, sendCount,
                 closed, sent, acks, got, readThrew,
                 sendThrew, closeLost>>
  /\ UNCHANGED <<parseVars, pipeVars, streamVars, scanVars>>

\* the parser of a ParserWriter returns or throws while it awaits no read:
\* this.#parserWaiting.resolve(false)
parserExits ==
  /\ pimpl = "ParserWriter"
  /\ readerPc \in {"reading", "finished"}
  /\ readsPending = 0
  /\ readerWaiting' = resolveWith(readerWaiting, "false")
  /\ readerPc' = "exited"
  /\ cancelled' = TRUE
  /\ UNCHANGED <<pimpl, nextRead, isReading, pipeDone,
                 sending, readsPending, inflight, readCount,
                 sendCount, closed, sent, acks, got,
                 readThrew, sendThrew, closeLost>>
  /\ UNCHANGED <<parseVars, pipeVars, streamVars, scanVars>>

\* writer.write(data) or writer.close(), up to the await in send.
\* ParserWriter.close() does not await #send(DONE): when #send throws, the
\* caller of close() is not told.
send ==
  /\ ~closed
  /\ sendCount < MaxSends
  /\ sendCount' = sendCount + 1
  /\ \E data \in {Value(Len(sent) + 1), DONE} :
       IF busy(sending)
       THEN /\ sendThrew' = TRUE
            /\ closeLost' = (closeLost \/ (pimpl = "ParserWriter" /\ data = DONE))
            /\ closed' = (pimpl = "ParserWriter" /\ data = DONE)
            /\ UNCHANGED <<sending, inflight, sent>>
       ELSE /\ sending' = TRUE
            /\ inflight' = Append(inflight, data)
            /\ sent' = Append(sent, data)
            /\ closed' = (data = DONE)
            /\ UNCHANGED <<sendThrew, closeLost>>
  /\ UNCHANGED <<pimpl, readerWaiting, nextRead, isReading,
                 pipeDone, readerPc, readsPending, readCount,
                 acks, got, cancelled, readThrew>>
  /\ UNCHANGED <<parseVars, pipeVars, streamVars, scanVars>>

\* send after its await: readerWaiting has been resolved
sendResumes ==
  /\ inflight # <<>>
  /\ readerAnswer(readerWaiting) # "pending"
  /\ inflight' = Tail(inflight)
  /\ sending' = FALSE
  /\ IF readerAnswer(readerWaiting) = "false"
     THEN /\ acks' = Append(acks, [value |-> Head(inflight), ok |-> FALSE])
          /\ UNCHANGED <<readerWaiting, nextRead, pipeDone>>
     ELSE /\ readerWaiting' = "pending"
          /\ nextRead' = IF nextRead = <<>> THEN <<Head(inflight)>>
                         ELSE nextRead
          /\ pipeDone' = (pipeDone \/ Head(inflight) = DONE)
          /\ acks' = Append(acks, [value |-> Head(inflight), ok |-> TRUE])
  /\ UNCHANGED <<pimpl, isReading, readerPc, readsPending,
                 readCount, sendCount, closed, sent, got,
                 cancelled, readThrew, sendThrew, closeLost>>
  /\ UNCHANGED <<parseVars, pipeVars, streamVars, scanVars>>

NextRv ==
  \/ read \/ readResumes \/ cancel \/ parserExits \/ send \/ sendResumes

SpecRv == InitRv /\ [][NextRv]_vars

----------------------------------------------------------------------------
(* Sessions whose first markdown cell starts with every shape of cue:      *)
(* spaces and tabs or none, a label or none, then ": ", ":" or other text. *)

CueStarts ==
  { w \o l \o s :
      w \in {<<>>, <<" ">>, <<"\t", " ">>},
      l \in {<<>>, <<"a">>, <<"a", " ", "b">>},
      s \in {<<":", " ">>, <<":">>, <<>>, <<":", "x">>} }

\* a session that has a code block, a code cell and a markdown cell
FullSession ==
  <<"a", ":", " ", "b", NL>>
    \o CodeBlockHeader("python") \o <<"y", NL>> \o Fence \o <<NL>>
    \o HeaderToken("python") \o <<"x", NL>>
    \o HeaderToken("markdown") \o <<"c">>

CueInputs ==
  {<<>>, FullSession} \cup
  { h \o c \o <<"x", NL>> : h \in {<<>>, HeaderToken("markdown")},
                             c \in CueStarts }

InitCue ==
  /\ PipeIdle
  /\ StreamIdle
  /\ RvIdle
  /\ ScanIdle
  /\ input \in CueInputs
  /\ rest = input
  /\ buffer = <<>>
  /\ inputDone = FALSE
  /\ chunking = "none"
  /\ pc = "copy"
  /\ ret = "none"
  /\ header = "none"
  /\ name = <<>>
  /\ cells = <<>>
  /\ refused = {}
  /\ runNo = 1
  /\ prev = NoPrev
  /\ jobs = <<>>
  /\ startPromise = "none"

SpecCue == InitCue /\ [][NextParse]_vars

----------------------------------------------------------------------------
(* Sessions with unknown and partial header lines, blank lines after a     *)
(* header, and fenced code blocks.                                         *)

\* an unknown cell type on the first line
UnknownAtStart ==
  <<"%", "f", "o", "o", NL, "c">>

\* an unknown cell type inside a code cell
UnknownInCode ==
  <<"%", "p", "y", "t", "h", "o", "n", NL, "%", "f", "o", "o", NL, "c">>

\* an unknown cell type inside a markdown cell, after a code block
UnknownInMarkdown ==
  <<"%", "m", "a", "r", "k", "d", "o", "w", "n", NL, BQ, BQ, BQ, "p", "y",
    "t", "h", "o", "n", NL, BQ, BQ, BQ, NL, "%", "f", "o", "o", NL, "c">>

\* a header token that lacks its newline, at the end of the input
PartialToken ==
  <<"%", "p", "y", "t", "h", "o", "n", NL, "%", "p", "y">>

\* a header marker that follows markdown text
HeaderInMarkdown ==
  <<"a", NL, "%", "t", "y", "p", "e", "s", "c", "r", "i", "p", "t", NL,
    "c">>

\* blank lines after a %markdown header
BlankAfterHeader ==
  <<"%", "m", "a", "r", "k", "d", "o", "w", "n", NL, " ", NL, "\t", NL,
    " ", "c">>

\* blank lines after a %python header and inside the cell
BlankLinesCell ==
  <<"%", "p", "y", "t", "h", "o", "n", NL, NL, " ", NL, "x", " ", "=", " ",
    "1", NL, NL, "y", " ", "=", " ", "2">>

\* a code block closed by a fence with trailing blanks, then text
FenceThenText ==
  <<"a", NL, BQ, BQ, BQ, "p", "y", "t", "h", "o", "n", NL, "y", NL, BQ, BQ,
    BQ, " ", "\t", NL, "c">>

\* a code block that a header follows
FenceThenHeader ==
  <<BQ, BQ, BQ, "p", "y", "t", "h", "o", "n", NL, "y", NL, BQ, BQ, BQ, NL,
    "%", "p", "y", "t", "h", "o", "n", NL, "x">>

\* a code block that another follows, which the input ends in
FenceThenFence ==
  <<BQ, BQ, BQ, "p", "y", "t", "h", "o", "n", NL, "y", NL, BQ, BQ, BQ, NL,
    BQ, BQ, BQ, "p", "y", "t", "h", "o", "n", NL, "z">>

LineInputs ==
  {<<>>, UnknownAtStart, UnknownInCode, UnknownInMarkdown,
   PartialToken, HeaderInMarkdown, BlankAfterHeader,
   BlankLinesCell, FenceThenText, FenceThenHeader,
   FenceThenFence}

InitLines ==
  /\ PipeIdle
  /\ StreamIdle
  /\ RvIdle
  /\ ScanIdle
  /\ input \in LineInputs
  /\ rest = input
  /\ buffer = <<>>
  /\ inputDone = FALSE
  /\ chunking = "none"
  /\ pc = "copy"
  /\ ret = "none"
  /\ header = "none"
  /\ name = <<>>
  /\ cells = <<>>
  /\ refused = {}
  /\ runNo = 1
  /\ prev = NoPrev
  /\ jobs = <<>>
  /\ startPromise = "none"

SpecLines == InitLines /\ [][NextParse]_vars

----------------------------------------------------------------------------
(* The Scanner driven directly: a caller calls pull() and startsWith() on  *)
(* a Scanner whose Reader returns given chunks, empty ones included, and   *)
(* then DONE.  A character outside the basic plane is the two code units   *)
(* HS and LS, which a Reader may deliver in different chunks.              *)

MaxScanChunks == 3

MaxScanCalls == 3

\* a leading (high) surrogate code unit
HS == "hs"

\* a trailing (low) surrogate code unit
LS == "ls"

ScanChunks ==
  {<<>>, <<"%">>, <<"a">>, <<"%", "a">>, <<HS>>, <<LS>>, <<HS, LS>>}

RECURSIVE Flat(_)
\* chunks.join("")
Flat(cs) == IF cs = <<>> THEN <<>> ELSE Head(cs) \o Flat(Tail(cs))

\* every surrogate of t is half of a pair
WellFormed(t) ==
  \A i \in 1..Len(t) :
     /\ (t[i] = HS) => (i < Len(t) /\ t[i + 1] = LS)
     /\ (t[i] = LS) => (i > 1 /\ t[i - 1] = HS)

\* the chunk lists of well-formed text
Sources ==
  { cs \in UNION { [1..n -> ScanChunks] : n \in 0..MaxScanChunks } :
      WellFormed(Flat(cs)) }

ScanPrefixes == {<<"%", "a">>, <<"a", "%", "a">>, <<HS, LS>>}

\* TestReader.read
readResult(cs) == IF cs = <<>> THEN DoneResult ELSE ChunkResult(Head(cs))

RECURSIVE skipEmpty(_)
\* pull: the reads that return "" are passed over
skipEmpty(cs) ==
  IF cs # <<>> /\ readResult(cs) = ChunkResult(<<>>) THEN skipEmpty(Tail(cs))
  ELSE cs

\* A pull that also returns true for an empty chunk.
pullNoSkip(b, cs) ==
  IF readResult(cs) = DoneResult
  THEN [ret |-> FALSE, b |-> b, left |-> cs, done |-> TRUE]
  ELSE [ret |-> TRUE, b |-> b \o readResult(cs).text, left |-> Tail(cs),
        done |-> FALSE]

\* Scanner.pull: ret is what it returns, b the buffer, left the chunks the
\* Reader still holds, done whether #inputDone was set
pullResult(b, cs) ==
  LET rs == skipEmpty(cs)
      chunk == readResult(rs)
  IN IF chunk = DoneResult
     THEN [ret |-> FALSE, b |-> b, left |-> rs, done |-> TRUE]
     ELSE [ret |-> TRUE, b |-> b \o chunk.text, left |-> Tail(rs),
           done |-> FALSE]

\* A startsWith that fills the buffer to the prefix's length first.
needsPullToFill(b, prefix) == Len(b) < Len(prefix)

\* startsWith: the loop goes on to pull()
needsPull(b, prefix) == Len(b) < Len(prefix) /\ b = Take(prefix, Len(b))

Returned(op, val) ==
  [op |-> op, val |-> val, before |-> scanBuffer, chunks |-> chunksLeft]

\* new Scanner(new TestReader(chunks))
InitScan ==
  /\ ParseIdle
  /\ PipeIdle
  /\ StreamIdle
  /\ RvIdle
  /\ source \in Sources
  /\ chunksLeft = source
  /\ scanBuffer = <<>>
  /\ scanInputDone = FALSE
  /\ scanCall = NoCall
  /\ scanLast = NoReturn
  /\ scanCalls = 0
  /\ openReads = <<>>

\* the caller calls scanner.pull()
scannerPull ==
  LET r == pullResult(scanBuffer, chunksLeft) IN
  /\ scanCall = NoCall
  /\ scanCalls < MaxScanCalls
  /\ scanCalls' = scanCalls + 1
  /\ scanBuffer' = r.b
  /\ chunksLeft' = r.left
  /\ scanInputDone' = (scanInputDone \/ r.done)
  /\ scanLast' = Returned("pull", r.ret)
  /\ UNCHANGED <<source, scanCall, openReads>>
  /\ UNCHANGED <<parseVars, pipeVars, streamVars, rvVars>>

\* the caller calls scanner.startsWith(prefix)
startsWithCall ==
  /\ scanCall = NoCall
  /\ scanCalls < MaxScanCalls
  /\ scanCalls' = scanCalls + 1
  /\ \E p \in ScanPrefixes :
       scanCall' = [op |-> "startsWith", prefix |-> p, pulls |-> 0]
  /\ UNCHANGED <<source, chunksLeft, scanBuffer,
                 scanInputDone, scanLast, openReads>>
  /\ UNCHANGED <<parseVars, pipeVars, streamVars, rvVars>>

\* startsWith: if (!await this.pull()) return false
startsWithPull ==
  LET r == pullResult(scanBuffer, chunksLeft) IN
  /\ scanCall.op = "startsWith"
  /\ needsPull(scanBuffer, scanCall.prefix)
  /\ scanBuffer' = r.b
  /\ chunksLeft' = r.left
  /\ scanInputDone' = (scanInputDone \/ r.done)
  /\ scanLast' = Returned("pull", r.ret)
  /\ scanCall' = [scanCall EXCEPT !.op = IF r.ret THEN @ ELSE "startsWithEnd",
                                  !.pulls = @ + 1]
  /\ UNCHANGED <<source, scanCalls, openReads>>
  /\ UNCHANGED <<parseVars, pipeVars, streamVars, rvVars>>

\* startsWith returns: false after a pull() that failed or at a mismatch,
\* else this.#buffer.startsWith(prefix)
startsWithReturn ==
  /\ \/ scanCall.op = "startsWithEnd"
     \/ scanCall.op = "startsWith" /\ ~needsPull(scanBuffer, scanCall.prefix)
  /\ scanLast' = [op |-> "startsWith",
                  val |-> /\ scanCall.op = "startsWith"
                          /\ IsPrefix(scanCall.prefix, scanBuffer),
                  before |-> scanBuffer, chunks |-> chunksLeft]
  /\ scanCall' = NoCall
  /\ UNCHANGED <<source, chunksLeft, scanBuffer,
                 scanInputDone, scanCalls, openReads>>
  /\ UNCHANGED <<parseVars, pipeVars, streamVars, rvVars>>

NextScan ==
  \/ scannerPull \/ startsWithCall \/ startsWithPull \/ startsWithReturn

SpecScan == InitScan /\ [][NextScan]_vars

----------------------------------------------------------------------------
(* The Scanner driven line by line: a caller awaits takeChunkWithinLine()  *)
(* again and again on a Scanner whose Reader returns chunks with newlines  *)
(* in them, empty chunks included.                                         *)

LineChunks == {<<>>, <<"a">>, <<NL>>, <<"a", NL, "a">>, <<NL, NL>>}

LineSources == UNION { [1..n -> LineChunks] : n \in 0..MaxScanChunks }

\* what takeChunkWithinLine is recorded to have returned when it has not
NoChunk == [NoReturn EXCEPT !.val = <<>>]

RECURSIVE fillTo(_, _, _)
\* Scanner.fillTo(n), from buffer b with the chunks cs still in the Reader;
\* done: a pull() returned false and set #inputDone
fillTo(b, cs, n) ==
  IF Len(b) >= n
  THEN [ret |-> TRUE, b |-> b, left |-> cs, done |-> FALSE]
  ELSE LET r == pullResult(b, cs) IN
       IF r.ret THEN fillTo(r.b, r.left, n) ELSE r

\* A takeChunkWithinLine that returns the whole buffer, newline or not.
takeWholeBuffer(b, cs) ==
  LET f == fillTo(b, cs, 1) IN
  [val |-> IF f.ret THEN f.b ELSE <<>>,
   b |-> IF f.ret THEN <<>> ELSE f.b, left |-> f.left, done |-> f.done]

\* Scanner.takeChunkWithinLine: val is the text it returns
chunkWithinLine(b, cs) ==
  LET f == fillTo(b, cs, 1)
      end == IndexOf(f.b, NL)
  IN IF ~f.ret THEN [val |-> <<>>, b |-> f.b, left |-> f.left, done |-> f.done]
     ELSE IF end = 0
     THEN [val |-> f.b, b |-> <<>>, left |-> f.left, done |-> f.done]
     ELSE [val |-> Take(f.b, end), b |-> Drop(f.b, end), left |-> f.left,
           done |-> f.done]

\* new Scanner(new TestReader(chunks))
InitTake ==
  /\ ParseIdle
  /\ PipeIdle
  /\ StreamIdle
  /\ RvIdle
  /\ source \in LineSources
  /\ chunksLeft = source
  /\ scanBuffer = <<>>
  /\ scanInputDone = FALSE
  /\ scanCall = NoCall
  /\ scanLast = NoChunk
  /\ scanCalls = 0
  /\ openReads = <<>>

\* the caller awaits scanner.takeChunkWithinLine()
takeChunk ==
  LET r == chunkWithinLine(scanBuffer, chunksLeft) IN
  /\ scanCall = NoCall
  /\ scanCalls < MaxScanCalls
  /\ scanCalls' = scanCalls + 1
  /\ scanBuffer' = r.b
  /\ chunksLeft' = r.left
  /\ scanInputDone' = (scanInputDone \/ r.done)
  /\ scanLast' = Returned("takeChunkWithinLine", r.val)
  /\ UNCHANGED <<source, scanCall, openReads>>
  /\ UNCHANGED <<parseVars, pipeVars, streamVars, rvVars>>

NextTake == takeChunk

SpecTake == InitTake /\ [][NextTake]_vars

----------------------------------------------------------------------------
(* The Scanner read by read.  pull() calls read() on the Reader before it  *)
(* first suspends; a TestReader takes its next chunk at that call, and the *)
(* pulls resume in the order of their reads.  The caller is free to call   *)
(* pull() again before an earlier call has resumed.  takeAll() is not      *)
(* async: while its loop runs, nothing resumes.                            *)

MaxOpenReads == 4

\* what a call of an async method gives its caller
PromiseValue == "Promise"

\* the values a JavaScript condition takes for false
Falsy == {"false", "0", "", "null", "undefined", "NaN"}

Truthy(v) == v \notin Falsy

\* TestReader.read, called for the method call number k
issueRead(k) ==
  /\ openReads' = Append(openReads,
                         [call |-> k, result |-> readResult(chunksLeft)])
  /\ chunksLeft' = IF chunksLeft = <<>> THEN <<>> ELSE Tail(chunksLeft)

\* new Scanner(new TestReader(chunks))
InitReads ==
  /\ ParseIdle
  /\ PipeIdle
  /\ StreamIdle
  /\ RvIdle
  /\ source \in LineSources
  /\ chunksLeft = source
  /\ scanBuffer = <<>>
  /\ scanInputDone = FALSE
  /\ scanCall = NoCall
  /\ scanLast = NoReturn
  /\ scanCalls = 0
  /\ openReads = <<>>

\* the caller calls scanner.pull(): const chunk = await this.#input.read()
pullCall ==
  /\ scanCall = NoCall
  /\ scanCalls < MaxScanCalls
  /\ Len(openReads) < MaxOpenReads
  /\ scanCalls' = scanCalls + 1
  /\ issueRead(scanCalls + 1)
  /\ UNCHANGED <<source, scanBuffer, scanInputDone, scanCall, scanLast>>
  /\ UNCHANGED <<parseVars, pipeVars, streamVars, rvVars>>

\* pull resumes with the chunk of its read: it returns false at DONE, reads
\* again after an empty chunk, and else appends the chunk and returns true
pullResume ==
  LET r == Head(openReads) IN
  /\ scanCall = NoCall
  /\ openReads # <<>>
  /\ IF r.result = DoneResult
     THEN /\ scanInputDone' = TRUE
          /\ scanLast' = Returned("pull", FALSE)
          /\ openReads' = Tail(openReads)
          /\ UNCHANGED <<scanBuffer, chunksLeft>>
     ELSE IF r.result.text = <<>>
     THEN /\ openReads' = Append(Tail(openReads),
                                 [call |-> r.call,
                                  result |-> readResult(chunksLeft)])
          /\ chunksLeft' = IF chunksLeft = <<>> THEN <<>>
                           ELSE Tail(chunksLeft)
          /\ UNCHANGED <<scanBuffer, scanInputDone, scanLast>>
     ELSE /\ scanBuffer' = scanBuffer \o r.result.text
          /\ scanLast' = Returned("pull", TRUE)
          /\ openReads' = Tail(openReads)
          /\ UNCHANGED <<chunksLeft, scanInputDone>>
  /\ UNCHANGED <<source, scanCall, scanCalls>>
  /\ UNCHANGED <<parseVars, pipeVars, streamVars, rvVars>>

\* the caller calls scanner.takeAll()
takeAllCall ==
  /\ scanCall = NoCall
  /\ scanCalls < MaxScanCalls
  /\ scanCalls' = scanCalls + 1
  /\ scanCall' = [op |-> "takeAll", prefix |-> <<>>, pulls |-> 0]
  /\ UNCHANGED <<source, chunksLeft, scanBuffer,
                 scanInputDone, scanLast, openReads>>
  /\ UNCHANGED <<parseVars, pipeVars, streamVars, rvVars>>

\* takeAll: while (this.pull()) {}, one test of the condition, and
\* return this.takeBuffer() when it fails
takeAllLoop ==
  /\ scanCall.op = "takeAll"
  /\ Len(openReads) < MaxOpenReads
  /\ issueRead(scanCalls)
  /\ IF Truthy(PromiseValue)
     THEN /\ scanCall' = [scanCall EXCEPT !.pulls = @ + 1]
          /\ UNCHANGED <<scanBuffer, scanLast>>
     ELSE /\ scanLast' = Returned("takeAll", scanBuffer)
          /\ scanBuffer' = <<>>
          /\ scanCall' = NoCall
  /\ UNCHANGED <<source, scanInputDone, scanCalls>>
  /\ UNCHANGED <<parseVars, pipeVars, streamVars, rvVars>>

NextReads == pullCall \/ pullResume \/ takeAllCall \/ takeAllLoop

SpecReads == InitReads /\ [][NextReads]_vars

----------------------------------------------------------------------------
(* ChildPipe with progress: what Node and the ChildPipe do by themselves   *)
(* happens in the end: a kill signal ends the child, the events of an      *)
(* ended child are delivered, buffered stderr is read, and close() goes on *)
(* when what it awaits has settled.  Nothing makes the child write, read   *)
(* its stdin or exit, the handler return, or the owner call anything.      *)

PipeProgress ==
  \/ childKilled \/ onExit \/ onClose \/ stderrRead
  \/ closeHandlerDone \/ closeStopped \/ probeDone

SpecPipeLive == InitPipe /\ [][NextPipe]_vars /\ WF_vars(PipeProgress)

----------------------------------------------------------------------------
(* BotResponse.copy with the top of its loop taken apart.  copy() calls    *)
(* skipToken(header.line) without awaiting it: skipToken finds the marker  *)
(* buffered and removes it when its own await resumes.  copy() goes on to  *)
(* the start call and awaits its promise, which the sink settles at the    *)
(* call or at any later time.  What resumes after an await is queued as a  *)
(* promise job, and the jobs run in the order they were queued.            *)

\* An await whose continuation runs before the jobs already queued.
resumeFirst(q, task) == <<task>> \o q

\* await of a settled promise: the continuation is queued as a promise job
resumeLater(q, task) == Append(q, task)

\* copy: this.#stream.skipToken(header.line), up to the await in skipToken;
\* then output.startMarkdownCell() or startCodeCell(), up to copy's await
loopTop ==
  LET found == startsWith(buffer, HeaderToken(header), rest # <<>>) IN
  /\ pc = "startCell"
  /\ found.st = "ok"
  /\ found.val
  /\ \E ok \in Answers : SinkStart(cellKind(header), ok)
  /\ \E settled \in BOOLEAN :
       /\ startPromise' = IF settled THEN "settled" ELSE "pending"
       /\ jobs' = IF settled
                  THEN resumeLater(resumeLater(jobs, "skipToken"), "copy")
                  ELSE resumeLater(jobs, "skipToken")
  /\ pc' = "awaitStart"
  /\ UNCHANGED <<input, rest, buffer, inputDone, chunking,
                 ret, header, name, runNo, prev>>
  /\ UNCHANGED <<pipeVars, streamVars, scanVars, rvVars>>

\* the sink settles the promise of its start call
startSettles ==
  /\ startPromise = "pending"
  /\ startPromise' = "settled"
  /\ jobs' = resumeLater(jobs, "copy")
  /\ UNCHANGED <<input, rest, buffer, inputDone, chunking, pc,
                 ret, header, name, cells, refused, runNo,
                 prev>>
  /\ UNCHANGED <<pipeVars, streamVars, scanVars, rvVars>>

\* the next promise job runs.  skipToken: this.#buffer =
\* this.#buffer.slice(token.length).  copy: the await of the start call is
\* over, next is skipBlankLines()
runJob ==
  /\ jobs # <<>>
  /\ jobs' = Tail(jobs)
  /\ IF Head(jobs) = "skipToken"
     THEN /\ buffer' = Drop(buffer, Len(HeaderToken(header)))
          /\ UNCHANGED <<pc, startPromise>>
     ELSE /\ pc' = "skipBlank"
          /\ startPromise' = "none"
          /\ UNCHANGED buffer
  /\ UNCHANGED <<input, rest, inputDone, chunking, ret,
                 header, name, cells, refused, runNo, prev>>
  /\ UNCHANGED <<pipeVars, streamVars, scanVars, rvVars>>

NextJobs ==
  \/ pull
  \/ copy \/ begin \/ noResponse \/ loopTop \/ startSettles \/ runJob
  \/ skipBlank
  \/ copyMarkdown \/ cueSpace \/ cueLabel \/ copyOrAddCue \/ markdownLoop
  \/ copyLineTo \/ copyCodeBlock \/ codeBlockLoop \/ fenceLine
  \/ codeBlockEnd \/ codeBlockNext \/ copyCodeCell \/ afterCell
  \/ secondDelivery

SpecJobs == InitLines /\ [][NextJobs]_vars

----------------------------------------------------------------------------
(* BotResponse.copy with progress: the Reader answers every read, the sink *)
(* answers every call, and copy() goes on whenever it can.                 *)

SpecParseLive == InitParse /\ [][NextParse]_vars /\ WF_vars(NextParse)

----------------------------------------------------------------------------
(* Claims about BotResponse.copy *)

\* C1: for one input, two deliveries that split it into chunks differently
\* (empty and one-character chunks included) end the same way and give the
\* sink the same cells: the same start calls in the same order and, for each
\* cell, the same concatenated text.
C1_ChunkInvariance ==
  (runNo = 2 /\ pc \in Terminal) => (pc = prev.pc /\ cells = prev.cells)

\* C1 witness: an input of several cells has been delivered whole and then
\* one character at a time.
C1_Witness ==
  /\ runNo = 2
  /\ pc = "returned"
  /\ prev.chunking = "whole"
  /\ chunking = "chars"
  /\ Len(cells) >= 2
  /\ Len(input) > 10

\* C2: once a call on the sink (write, startCodeCell or startMarkdownCell)
\* has returned false, copy makes no further call on the sink, so the sink's
\* record of cells no longer changes during that run.
C2_NoCallAfterFalse ==
  [][(refused # {} /\ runNo' = runNo) => cells' = cells]_vars

\* C3: when a sink write has returned false, copy has ended by throwing
\* CANCELLED: it has not returned, has not thrown an Error, and is not
\* running on.
C3_RefusedWriteCancels == ("write" \in refused) => pc = "cancelled"

\* C3 witness: a write in a later cell was refused and copy was cancelled.
C3_Witness ==
  /\ "write" \in refused
  /\ pc = "cancelled"
  /\ Len(cells) >= 2

----------------------------------------------------------------------------
(* Claims about ChildPipe and Service.checkCommandPath *)

\* C4: when the stdout handler threw, close() rejects with the handler's
\* exception and with nothing else, also when the child exited with a
\* non-zero code, whether the exit was noticed before or after the throw.
C4_HandlerErrorWins ==
  (closePc = "settled" /\ handler = "threw")
    => closeResult = Rejected(HandlerError)

\* C4 witness: the handler threw, the child exited with a non-zero code, the
\* exit was recorded as a ChildExitError, and close() has settled.
C4_Witness ==
  /\ closePc = "settled"
  /\ handler = "threw"
  /\ proc = "exited"
  /\ exitCode # 0
  /\ stopped.error.kind = "ChildExitError"

\* C5: when close() settles after the handler returned normally and the
\* exit of the child with a non-zero code was reported, it rejects with a
\* ChildExitError that carries that exit code.
C5_ExitErrorAfterReturn ==
  [][(/\ closePc # "settled"
      /\ closePc' = "settled"
      /\ handler = "returned"
      /\ "exit" \in seen
      /\ ~exitSignal
      /\ exitCode # 0)
     => (/\ closeResult'.state = "rejected"
         /\ closeResult'.error.kind = "ChildExitError"
         /\ closeResult'.error.exitCode = exitCode)]_vars

\* C6: the stderr field of the ChildExitError that close() rejects with holds
\* every chunk the child wrote to stderr, in the order written, and the
\* stdout handler is never given a chunk of stderr.
C6_StderrComplete ==
  /\ (closeResult.state = "rejected"
      /\ closeResult.error.kind = "ChildExitError")
       => closeResult.error.stderr = stderrSent
  /\ \A i \in 1..Len(handlerGot) : handlerGot[i][1] = "out"

\* C7: the teardown (#stop) kills the child exactly once, at the first
\* terminal event; a later terminal event neither kills again nor changes
\* the outcome that was recorded.
C7_StopOnce ==
  /\ [](stopCalled <=> stopKills = 1)
  /\ [](stopKills <= 1)
  /\ [][stopCalled => (stopped' = stopped /\ stopKills' = stopKills)]_vars

\* C7 witness: after an exit with a non-zero code the "close" listener has
\* run, which calls #stop twice, and close() has settled.
C7_Witness ==
  /\ "close" \in seen
  /\ ~exitSignal
  /\ exitCode # 0
  /\ closePc = "settled"
  /\ stopKills = 1
  /\ stopped.error.kind = "ChildExitError"

\* C8: close() has ended stdin, and it does not settle before the stdout
\* handler has settled and the child process has exited.
C8_CloseWaitsForExit ==
  closePc = "settled"
    => (stdinEnded /\ handler # "running" /\ proc # "running")

\* C9: when the timer fired before close() settled, the child has been sent
\* a kill by the time checkCommandPath has returned "".
C9_TimeoutKills == (probePc = "returned" /\ timedOut) => kills > 0

\* C10: at most one write() is in flight: no two promises of write() wait
\* for "drain" at the same time.
C10_OneWriteInFlight == writesOpen <= 1

\* C11: a write() that is called after the stdout handler has returned or
\* thrown fails with an error: the call throws and nothing more is waiting
\* on stdin.
C11_WriteAfterHandlerFails ==
  [][(writeCalls' = writeCalls + 1 /\ handler # "running")
       => (writeThrew' /\ writesOpen' = writesOpen)]_vars

----------------------------------------------------------------------------
(* Claims about copyStream *)

RECURSIVE Delivered(_)
\* the chunks a sequence of read() results holds, joined in order
Delivered(rs) ==
  IF rs = <<>> THEN <<>> ELSE rs[1].text \o Delivered(Tail(rs))

\* C12: the adapter's read() calls return the chunks of the source in the
\* order they arrived, each once (a byte stream may hand several buffered
\* chunks over as one, an object stream never does), and a read() returns
\* DONE only when every chunk that arrived has been returned.
C12_ChunksInOrderOnce ==
  /\ IsPrefix(Delivered(results), arrived)
  /\ \A i \in 1..Len(results) :
       /\ results[i].kind = "DONE" => Delivered(Take(results, i)) = arrived
       /\ (results[i].kind = "chunk" /\ mode = "object")
            => Len(results[i].text) = 1

\* C12 witness: two chunks arrived, were returned by two reads, and a third
\* read returned DONE.
C12_Witness ==
  /\ Len(arrived) >= 2
  /\ Len(results) >= 3
  /\ results[1].kind = "chunk"
  /\ results[2].kind = "chunk"
  /\ results[Len(results)].kind = "DONE"

\* C13: once the handler has exited, by returning (also with data left
\* unread) or by throwing, and copyStream has settled, the source is
\* destroyed and the three listeners are removed: no event of the source
\* changes copyStream's state any more.
C13_TornDownAfterHandler ==
  /\ [](csPc = "done" => (destroyed /\ ~listening))
  /\ [][csPc = "done" =>
          UNCHANGED <<streamEnded, streamError, currentRead, results,
                      srcBuf>>]_vars

\* C13 witness: the handler left after one read while the source still held
\* an unread chunk, and copyStream has settled.
C13_Witness ==
  /\ csPc = "done"
  /\ Len(results) = 1
  /\ srcBuf # <<>>
  /\ srcState = "open"

\* C14: when the source emits an error, a read that is pending at that
\* moment rejects with it; otherwise the handler's next read() rejects with
\* it.  No read stays pending after the error, and none of these reads gets
\* a chunk or DONE.
C14_ErrorReachesRead ==
  /\ [](streamError => currentRead = "none")
  /\ [][(streamError' /\ currentRead = "pending")
          => results' = Append(results, ErrorResult)]_vars
  /\ [][(streamError /\ readCalls' = readCalls + 1)
          => results' = Append(results, ErrorResult)]_vars

\* C14 witness: after a chunk was read the source failed while chunks were
\* still arriving, and the two following reads were both rejected.
C14_Witness ==
  /\ streamError
  /\ Len(results) >= 3
  /\ results[1].kind = "chunk"
  /\ results[Len(results) - 1].kind = "error"
  /\ results[Len(results)].kind = "error"

----------------------------------------------------------------------------
(* Claims about the rendezvous pipe *)

\* the values whose write or close resolved true, in that order
RECURSIVE Accepted(_)
Accepted(as) ==
  IF as = <<>> THEN <<>>
  ELSE (IF as[1].ok THEN <<as[1].value>> ELSE <<>>) \o Accepted(Tail(as))

\* what the reader got from the writer: after a cancel, the DONE that the
\* cancel itself put into the pipe is left out
FromWriter ==
  IF pimpl = "makePipe" /\ cancelled /\ got # <<>> /\ got[Len(got)] = DONE
  THEN Take(got, Len(got) - 1)
  ELSE got

\* C15: a write or close resolves true only at a moment when a read() of
\* the paired reader is pending, and the value is then held for that read.
C15_HandoffNeedsPendingRead ==
  [][(Len(acks') = Len(acks) + 1 /\ acks'[Len(acks')].ok)
       => (readsPending = 1 /\ nextRead' = <<acks'[Len(acks')].value>>)]_vars

\* C16: once the reader has cancelled, every write or close that resolves
\* resolves false.
C16_FalseAfterCancel ==
  [][(pimpl = "makePipe" /\ cancelled /\ Len(acks') = Len(acks) + 1)
       => ~acks'[Len(acks')].ok]_vars

----------------------------------------------------------------------------
(* Claims about the empty response and the cue *)

\* C19: for an input without any text, copy makes one sink call, the write
\* of the default cue, ": " and "(no response)"; it makes no start call, and
\* when the write is accepted it returns.
C19_NoResponse ==
  /\ []((input = <<>> /\ pc \in Terminal /\ refused = {})
          => (/\ pc = "returned"
              /\ cells = <<[type |-> "implicit",
                            text |-> defaultCue \o CueSep \o NoResponse]>>))
  /\ [][(input = <<>> /\ runNo' = runNo /\ cells' # cells)
          => (pc = "noResponse" /\ cells = <<>>)]_vars
  /\ [][(input = <<>> /\ refused' # refused) => pc = "noResponse"]_vars

\* C19 witness: the empty input was copied and copy has returned.
C19_Witness ==
  /\ input = <<>>
  /\ runNo = 1
  /\ pc = "returned"
  /\ Len(cells) = 1
  /\ cells[1].text = defaultCue \o CueSep \o NoResponse

\* the part of the input the Scanner has taken out of its buffer
Consumed == Take(input, Len(input) - Len(buffer) - Len(rest))

RECURSIVE SkipWs(_)
\* s without its leading spaces and tabs
SkipWs(s) ==
  IF s # <<>> /\ s[1] \in {" ", "\t"} THEN SkipWs(Tail(s)) ELSE s

RECURSIVE LabelLen(_)
\* the length of the longest prefix of s made of label characters
LabelLen(s) ==
  IF s # <<>> /\ s[1] \in labelChars THEN 1 + LabelLen(Tail(s)) ELSE 0

\* what copyOrAddCue is to write for the text t that follows the leading
\* spaces and tabs, and what it is to leave in the input
RefCue(t) ==
  LET n == LabelLen(t) IN
  IF n > 0 /\ IsPrefix(CueSep, Drop(t, n))
  THEN [out |-> Take(t, n + 2), left |-> Drop(t, n + 2)]
  ELSE [out |-> defaultCue \o CueSep \o Take(t, n), left |-> Drop(t, n)]

\* the text of the first markdown cell of the input
CellBody ==
  IF IsPrefix(HeaderToken("markdown"), input)
  THEN Drop(input, Len(HeaderToken("markdown")))
  ELSE input

\* the sink has not been given any text yet
FirstCue == cells = <<>> \/ (Len(cells) = 1 /\ cells[1].text = <<>>)

\* C20: at the start of a markdown cell copyOrAddCue skips spaces and tabs;
\* if a label followed by ": " comes next it writes that label and ": " as
\* they are, otherwise it writes the default cue, ": " and the label
\* characters it has taken.  What it leaves in the input is the text right
\* after what it wrote from the input: nothing but the leading spaces and
\* tabs is dropped.
C20_CueKeptOrAdded ==
  /\ [](pc = "cueSep" =>
          /\ Consumed \o buffer \o rest = input
          /\ Len(name) <= Len(Consumed)
          /\ Drop(Consumed, Len(Consumed) - Len(name)) = name
          /\ SkipWs(name \o buffer \o rest) = name \o buffer \o rest)
  /\ [][(pc = "cueSep" /\ pc' = "markdownLoop") =>
          LET ref == RefCue(name \o buffer \o rest)
              new == IF cells = <<>> THEN cells'[1].text
                     ELSE Drop(cells'[Len(cells')].text,
                               Len(cells[Len(cells)].text))
          IN /\ new = ref.out
             /\ buffer' \o rest' = ref.left
             /\ FirstCue => (/\ new = RefCue(SkipWs(CellBody)).out
                             /\ buffer' \o rest'
                                  = RefCue(SkipWs(CellBody)).left)]_vars

\* C20 witness: the cell began with a tab and a space, the label "a b" and
\* ": "; the cue "a b: " has been written and the rest of the line is still
\* to come.
C20_Witness ==
  /\ IsPrefix(<<"\t", " ", "a", " ", "b", ":", " ", "x">>, input)
  /\ pc = "markdownLoop"
  /\ Len(cells) = 1
  /\ cells[1].text = <<"a", " ", "b", ":", " ">>
  /\ chunking = "chars"

\* C20 second witness: a label that no ": " follows; the default cue was put
\* in front of it.
C20_WitnessAdded ==
  /\ IsPrefix(<<" ", "a", ":", "x">>, input)
  /\ pc = "markdownLoop"
  /\ Len(cells) = 1
  /\ cells[1].text = defaultCue \o CueSep \o <<"a">>

----------------------------------------------------------------------------
(* Claims about headers, code cells and blank lines *)

\* the name of the start call for a header of the given type
StartCallFor(type) ==
  IF type = "markdown" THEN "startMarkdownCell" ELSE "startCodeCell"

\* C21: in the step in which copy consumes a header marker it makes one start
\* call, startMarkdownCell for %markdown and startCodeCell for %python or
\* %typescript: when the sink accepts it, a new empty cell of that kind comes
\* after all the text written so far, so every write of the previous cell
\* precedes it and every write of the new cell's text follows it; when the
\* sink refuses it, the refusal of that call is recorded.  No other step
\* starts a cell, but for the cells of a fenced code block.
C21_OneStartPerHeader ==
  [][ /\ (pc = "startCell") =>
           (/\ IsPrefix(HeaderToken(header), buffer)
            /\ buffer' = Drop(buffer, Len(HeaderToken(header)))
            /\ \/ cells' = Append(cells,
                             [type |-> IF header = "markdown" THEN "markdown"
                                       ELSE "code",
                              text |-> <<>>])
               \/ cells' = cells /\ StartCallFor(header) \in refused')
      /\ (pc # "startCell" /\ runNo' = runNo /\ Len(cells') > Len(cells)
             /\ cells # <<>>) =>
           (pc \in {"copyCodeBlock", "codeBlockNext"})
    ]_vars

\* C21 witness: a %python header and a %markdown header have both been
\* consumed; the sink holds a code cell with the text of the first and an
\* empty markdown cell after it.
C21_Witness ==
  /\ input = HeaderToken("python") \o <<"x", NL>> \o HeaderToken("markdown")
  /\ pc = "skipBlank"
  /\ Len(cells) = 2
  /\ cells[1] = [type |-> "code", text |-> <<"x", NL>>]
  /\ cells[2] = [type |-> "markdown", text |-> <<>>]

\* some header marker is a prefix of t
IsHeaderNext(t) == \E i \in 1..Len(allCellTypes) :
                      IsPrefix(HeaderToken(allCellTypes[i]), t)

RECURSIVE RefSkipBlankLines(_)
\* t without its leading lines of white space
RefSkipBlankLines(t) ==
  LET end == IndexOf(t, NL)
      line == IF end = 0 THEN t ELSE Take(t, end - 1)
  IN IF t = <<>> \/ ~TrimIsEmpty(line) THEN t
     ELSE IF end = 0 THEN <<>> ELSE RefSkipBlankLines(Drop(t, end))

RECURSIVE RefCodeCell(_)
\* the lines of t before the first line that is a header marker (out), and
\* the text from that line on (left)
RefCodeCell(t) ==
  IF t = <<>> \/ IsHeaderNext(t) THEN [out |-> <<>>, left |-> t]
  ELSE LET end == IndexOf(t, NL)
           n == IF end = 0 THEN Len(t) ELSE end
           r == RefCodeCell(Drop(t, n))
       IN [out |-> Take(t, n) \o r.out, left |-> r.left]

\* the input after its leading blank lines
Trimmed == RefSkipBlankLines(input)

\* the input begins with the header of a code cell
CodeCellFirst == \E i \in 1..Len(allLanguages) :
                    IsPrefix(HeaderToken(allLanguages[i]), Trimmed)

\* the body of the cell that the first header of the input starts
FirstBody ==
  RefSkipBlankLines(Drop(Trimmed, IndexOf(Trimmed, NL)))

\* C22: copyCodeCell writes the lines of the input that come before the first
\* line that is a header marker (all that is left when there is none), as
\* they are and in order.  It stops at a header marker, also when no blank
\* line precedes it, and leaves the marker in the input.  Step by step: the
\* header test takes nothing from the input, each write appends exactly the
\* text taken from the buffer, and the cell ends only at a header marker or
\* at the end of the input.
C22_CodeCellVerbatim ==
  [][ /\ (pc = "copyCodeCell" /\ pc' # "copyCodeCell") =>
           (/\ buffer' = buffer
            /\ cells' = cells
            /\ (pc' = "afterCell") =>
                  (IsHeaderNext(buffer') \/ (buffer' = <<>> /\ rest' = <<>>))
            /\ (pc' = "afterCell" /\ CodeCellFirst /\ refused = {}
                  /\ Len(cells) = 1) =>
                  (/\ cells[1].type = "code"
                   /\ cells[1].text = RefCodeCell(FirstBody).out
                   /\ buffer' \o rest' = RefCodeCell(FirstBody).left))
      /\ (pc = "copyLineTo" /\ ret = "copyCodeCell" /\ cells' # cells) =>
           (LET n == Len(buffer) - Len(buffer') IN
            /\ n > 0
            /\ buffer' = Drop(buffer, n)
            /\ cells' = Written(cells, Take(buffer, n))
            /\ ~IsHeaderNext(buffer) \/ cells[Len(cells)].text # <<>>)
    ]_vars

\* C22 witness: the input held no header marker after the first; the code
\* cell holds both lines that followed it, and copy has returned.
C22_Witness ==
  /\ input = HeaderToken("python") \o <<"x", NL>> \o <<"a", ":", " ", "b", NL>>
  /\ pc = "returned"
  /\ cells = <<[type |-> "code", text |-> <<"x", NL, "a", ":", " ", "b", NL>>]>>

\* C22 second witness: the cell has ended at a header marker that follows
\* its last line without a blank line in between.
C22_WitnessHeader ==
  /\ input = HeaderToken("python") \o <<"x", NL>> \o HeaderToken("markdown")
  /\ pc = "afterCell"
  /\ cells = <<[type |-> "code", text |-> <<"x", NL>>]>>
  /\ buffer \o rest = HeaderToken("markdown")

\* the input that has not been consumed
LeftText == buffer \o rest

\* the steps of copy that ask matchHeaderLine
HeaderChecks ==
  {"begin", "afterCell", "markdownLoop", "codeBlockNext", "copyCodeCell"}

\* C23: matchHeaderLine reports a header exactly when the unconsumed input
\* begins with "%", a known cell type and a newline, and reports that type.
\* The check consumes nothing: while it waits for input the buffer only
\* grows, and when it has answered the unconsumed input is what it was,
\* whether a header was found or not.
C23_HeaderNeedsFullToken ==
  [][ /\ (pc \in {"begin", "afterCell"} /\ pc' # pc) =>
           (/\ buffer' = buffer /\ rest' = rest
            /\ (pc' = "startCell") <=> IsHeaderNext(LeftText)
            /\ (pc' = "startCell") =>
                  IsPrefix(HeaderToken(header'), LeftText))
      /\ (pc = "copyCodeCell" /\ pc' # pc) =>
           (/\ buffer' = buffer /\ rest' = rest
            /\ (pc' = "afterCell" /\ LeftText # <<>>)
                  <=> IsHeaderNext(LeftText))
      /\ (pc = "markdownLoop" /\ pc' # pc) =>
           (/\ (pc' = "afterCell" /\ LeftText # <<>>)
                  <=> IsHeaderNext(LeftText)
            /\ (pc' # "copyCodeBlock") => (buffer' = buffer /\ rest' = rest))
      /\ (pc = "codeBlockNext" /\ pc' # pc) =>
           (/\ buffer' = buffer /\ rest' = rest
            /\ IsHeaderNext(LeftText) =>
                  (pc' = "markdownLoop" /\ cells' = cells))
      /\ (pc \in HeaderChecks /\ pc' = pc) =>
           (/\ IsPrefix(buffer, buffer')
            /\ buffer' \o rest' = LeftText)
    ]_vars

\* C23 witness: inside a code cell the input ended with "%py"; the check has
\* answered that no header is next, and "%py" is still in the buffer.
C23_Witness ==
  /\ input = PartialToken
  /\ pc = "copyLineTo"
  /\ ret = "copyCodeCell"
  /\ buffer = <<"%", "p", "y">>
  /\ rest = <<>>
  /\ cells = <<[type |-> "code", text |-> <<>>]>>

\* C23 second witness: a complete header token was found after markdown
\* text, and it is still in the input.
C23_WitnessFound ==
  /\ input = HeaderInMarkdown
  /\ pc = "startCell"
  /\ header = "typescript"
  /\ IsPrefix(HeaderToken("typescript"), LeftText)

\* s ends with t
EndsWith(s, t) == Len(t) <= Len(s) /\ Drop(s, Len(s) - Len(t)) = t

\* the line of an unknown cell type and the text after it
UnknownLine == <<"%", "f", "o", "o", NL, "c">>

UnknownInputs == {UnknownAtStart, UnknownInCode, UnknownInMarkdown}

\* C24: a line "%foo" (an unknown cell type) is no header: copy never throws
\* "expected a header line" on such an input, it ends only by returning or,
\* after a refused write, by CANCELLED; and when it has returned with every
\* sink call accepted, the line and the text after it stand as they are at
\* the end of the cell that was current: the first, implicit cell, the code
\* cell, or the markdown cell after a code block.
C24_UnknownTypeIsText ==
  (input \in UnknownInputs) =>
     /\ pc # "error"
     /\ (pc \in Terminal /\ refused = {}) =>
          /\ pc = "returned"
          /\ cells # <<>>
          /\ EndsWith(cells[Len(cells)].text, UnknownLine)
          /\ cells[Len(cells)].type =
                (CASE input = UnknownAtStart -> "implicit"
                   [] input = UnknownInCode -> "code"
                   [] input = UnknownInMarkdown -> "markdown")
          /\ Len(cells) = (IF input = UnknownInMarkdown THEN 3 ELSE 1)

\* C24 witness: "%foo" came first in a code cell; the cell holds the line and
\* the text after it, and copy has returned.
C24_Witness ==
  /\ input = UnknownInCode
  /\ pc = "returned"
  /\ chunking = "chars"
  /\ cells = <<[type |-> "code", text |-> UnknownLine]>>

\* C25: the blank lines that follow a header marker are dropped.  While copy
\* skips them nothing is written, only leading blank lines leave the input,
\* and when it goes on no blank line is next.  So a markdown cell's cue
\* handling and a code cell's first write start at the first line that is
\* not blank, and the first write of a code cell is the text taken from the
\* head of that line.
C25_BlankLinesAfterHeaderDropped ==
  /\ [](pc = "copyMarkdown" => LeftText = RefSkipBlankLines(LeftText))
  /\ [](( /\ input = BlankAfterHeader
          /\ pc \in Terminal
          /\ refused = {}) =>
            ( /\ pc = "returned"
              /\ cells = <<[type |-> "markdown",
                            text |-> defaultCue \o CueSep \o <<"c">>]>>))
  /\ [][ /\ (pc = "skipBlank") =>
              ( /\ cells' = cells
                /\ refused' = refused
                /\ EndsWith(LeftText, buffer' \o rest')
                /\ RefSkipBlankLines(buffer' \o rest')
                     = RefSkipBlankLines(LeftText)
                /\ (pc' # "skipBlank") =>
                     (buffer' \o rest' = RefSkipBlankLines(LeftText)))
         /\ ( /\ pc = "copyLineTo"
              /\ ret = "copyCodeCell"
              /\ cells # <<>>
              /\ cells' # cells
              /\ cells[Len(cells)].text = <<>>) =>
              ( /\ LeftText = RefSkipBlankLines(LeftText)
                /\ IsPrefix(cells'[Len(cells')].text, LeftText))
       ]_vars

\* C25 witness: two blank lines followed the %python header; they are gone
\* and the first line of the cell has been written.
C25_Witness ==
  /\ input = BlankLinesCell
  /\ pc = "copyCodeCell"
  /\ cells = <<[type |-> "code", text |-> <<"x", " ", "=", " ", "1", NL>>]>>
  /\ LeftText = <<NL, "y", " ", "=", " ", "2">>

\* C26: for the input "%python", an empty line, a line of one space,
\* "x = 1", an empty line and "y = 2", copy gives the sink exactly one code
\* cell, and its text is "x = 1" and "y = 2" on two lines with nothing in
\* between.
C26_OneCellTwoLines ==
  (input = BlankLinesCell /\ pc \in Terminal /\ refused = {}) =>
     /\ pc = "returned"
     /\ cells = <<[type |-> "code",
                   text |-> <<"x", " ", "=", " ", "1", NL,
                              "y", " ", "=", " ", "2">>]>>

\* a code block header of a known language is a prefix of t
IsCodeBlockHeaderNext(t) == \E i \in 1..Len(allLanguages) :
                               IsPrefix(CodeBlockHeader(allLanguages[i]), t)

\* the first line of t, with its newline if it has one
FirstLine(t) == IF IndexOf(t, NL) = 0 THEN t ELSE Take(t, IndexOf(t, NL))

\* what the sink holds after startCodeCell / startMarkdownCell was called
StartCalled(type) ==
  \/ cells' = Append(cells, [type |-> type, text |-> <<>>])
  \/ cells' = cells /\ StartCallFor(type) \in refused'

\* C27: in a markdown body a line of three backquotes, a known language and
\* a newline opens a code block: copy takes the line without writing it and
\* starts a code cell.  It writes the lines that follow as they are, until
\* a line of three backquotes with nothing but spaces and tabs after them,
\* which it takes without writing it, or until the input ends.  After the
\* closing line and the blank lines behind it, it starts a markdown cell and
\* handles the cue exactly when text follows that begins with neither a
\* header marker nor a code block header.
C27_CodeBlock ==
  /\ [](( /\ input \in {FenceThenText, FenceThenHeader, FenceThenFence}
          /\ pc \in Terminal
          /\ refused = {}) =>
            ( /\ pc = "returned"
              /\ cells =
                   (CASE input = FenceThenText ->
                           <<[type |-> "implicit",
                              text |-> defaultCue \o CueSep \o <<"a", NL>>],
                             [type |-> "code", text |-> <<"y", NL>>],
                             [type |-> "markdown",
                              text |-> defaultCue \o CueSep \o <<"c">>]>>
                      [] input = FenceThenHeader ->
                           <<[type |-> "code", text |-> <<"y", NL>>],
                             [type |-> "code", text |-> <<"x">>]>>
                      [] input = FenceThenFence ->
                           <<[type |-> "code", text |-> <<"y", NL>>],
                             [type |-> "code", text |-> <<"z">>]>>)))
  /\ [][ /\ (pc \in {"copyMarkdown", "markdownLoop"} /\ pc' # pc) =>
              ( /\ (pc' = "copyCodeBlock") <=> IsCodeBlockHeaderNext(LeftText)
                /\ (pc' = "copyCodeBlock") =>
                     ( /\ buffer' \o rest'
                            = Drop(LeftText, Len(FirstLine(LeftText)))
                       /\ cells' = cells))
         /\ (pc = "copyCodeBlock") =>
              (pc' = "codeBlockLoop" /\ StartCalled("code"))
         /\ (pc = "codeBlockLoop" /\ pc' # pc) =>
              ( /\ buffer' = buffer /\ rest' = rest /\ cells' = cells
                /\ (pc' = "fenceLine") <=> IsPrefix(Fence, LeftText)
                /\ (pc' = "markdownLoop") => (LeftText = <<>>)
                /\ (LeftText = <<>>) => (pc' \in {"markdownLoop", "copyLineTo"}))
         /\ (pc = "fenceLine" /\ pc' # pc) =>
              ( /\ buffer' \o rest' = Drop(LeftText, Len(FirstLine(LeftText)))
                /\ IF /\ IsPrefix(Fence, FirstLine(LeftText))
                      /\ \A i \in 4..Len(FirstLine(LeftText)) :
                            FirstLine(LeftText)[i] \in {" ", "\t", NL}
                   THEN cells' = cells /\ pc' = "codeBlockEnd"
                   ELSE \/ cells' = Written(cells, FirstLine(LeftText))
                        \/ pc' = "cancelled")
         /\ ( /\ pc = "copyLineTo"
              /\ ret = "codeBlockLoop"
              /\ cells' # cells) =>
              ( /\ cells' = Written(cells, Take(buffer,
                                                Len(buffer) - Len(buffer')))
                /\ buffer' = Drop(buffer, Len(buffer) - Len(buffer')))
         /\ (pc = "codeBlockNext" /\ pc' # pc) =>
              ( /\ buffer' = buffer /\ rest' = rest
                /\ IF /\ LeftText # <<>>
                      /\ ~IsHeaderNext(LeftText)
                      /\ ~IsCodeBlockHeaderNext(LeftText)
                   THEN pc' = "cueSpace" /\ StartCalled("markdown")
                   ELSE pc' = "markdownLoop" /\ cells' = cells)
       ]_vars

\* C27 witness: after markdown text a code block was closed by a fence with
\* a space and a tab behind it; the code cell holds the block's line, the
\* text after the block stands in a new markdown cell behind the added cue.
C27_Witness ==
  /\ input = FenceThenText
  /\ pc = "returned"
  /\ Len(cells) = 3
  /\ cells[2] = [type |-> "code", text |-> <<"y", NL>>]
  /\ cells[3] = [type |-> "markdown", text |-> defaultCue \o CueSep \o <<"c">>]

----------------------------------------------------------------------------
(* Claims about the Scanner *)

\* the index of the first chunk of cs that is not empty, 0 if there is none
FirstNonEmpty(cs) ==
  IF \E i \in 1..Len(cs) : cs[i] # <<>>
  THEN CHOOSE i \in 1..Len(cs) :
         cs[i] # <<>> /\ \A j \in 1..(i - 1) : cs[j] = <<>>
  ELSE 0

\* the text of the chunks the Reader has returned
Delivered2Scanner == Flat(Take(source, Len(source) - Len(chunksLeft)))

C28_WitnessDone ==
  /\ source = << <<"a">>, <<>> >>
  /\ scanLast.op = "pull"
  /\ ~scanLast.val
  /\ scanInputDone
  /\ scanBuffer = <<"a">>

\* C29: the buffer that a pull() which returned true leaves behind never
\* ends with a leading surrogate whose trailing surrogate is still to come
\* from the Reader.
C29_NoSplitSurrogatePair ==
  (scanLast.op = "pull" /\ scanLast.val) =>
     ~ ( /\ scanBuffer[Len(scanBuffer)] = HS
         /\ Flat(chunksLeft) # <<>>
         /\ Flat(chunksLeft)[1] = LS )

\* C30: startsWith pulls only while it cannot decide: whenever it calls
\* pull() the buffer is shorter than the prefix and equal to the prefix's
\* beginning of that length.  So it does not pull once the buffered text
\* differs from the prefix, nor once the buffer holds as many units as the
\* prefix has; and what it returns is whether the buffer begins with the
\* prefix.
C30_StartsWithPullsAsNeeded ==
  /\ [][(scanCall.op = "startsWith" /\ scanCall'.pulls > scanCall.pulls) =>
          ( /\ Len(scanBuffer) < Len(scanCall.prefix)
            /\ IsPrefix(scanBuffer, scanCall.prefix))]_vars
  /\ [][(scanCall.op \in {"startsWith", "startsWithEnd"}
           /\ scanCall' = NoCall) =>
          ( /\ scanLast'.val <=> IsPrefix(scanCall.prefix, scanBuffer)
            /\ scanBuffer' = scanBuffer
            /\ chunksLeft' = chunksLeft)]_vars

\* C30 witness: the first chunk did not match the prefix; startsWith has
\* returned false after one pull(), and the second chunk is still with the
\* Reader.
C30_Witness ==
  /\ source = << <<"a">>, <<"%", "a">> >>
  /\ scanLast = [op |-> "startsWith", val |-> FALSE, before |-> <<"a">>,
                 chunks |-> << <<"%", "a">> >>]
  /\ scanBuffer = <<"a">>
  /\ scanCalls = 1

\* the chunks the Reader has handed out during the last call
TakenByLast ==
  Take(scanLast.chunks, Len(scanLast.chunks) - Len(chunksLeft))

\* C31: what a takeChunkWithinLine() call returns has no newline except as
\* its last character; the call takes at most one non-empty chunk from the
\* Reader; it returns "" only when the Reader has returned DONE and nothing
\* is buffered; and the text returned and the text left in the buffer are
\* together what was buffered before plus what the Reader handed out.
C31_ChunkWithinLine ==
  (scanLast.op = "takeChunkWithinLine") =>
    LET v == scanLast.val
        taken == TakenByLast
    IN /\ \A i \in 1..Len(v) : (v[i] = NL) => (i = Len(v))
       /\ Cardinality({i \in 1..Len(taken) : taken[i] # <<>>}) <= 1
       /\ (scanLast.before # <<>>) => (taken = <<>>)
       /\ (v = <<>>) => (scanInputDone /\ chunksLeft = <<>> /\ scanBuffer = <<>>)
       /\ scanLast.before \o Flat(taken) = v \o scanBuffer

\* a call that passed over an empty chunk, took a chunk with a newline in
\* its middle, and returned the text up to the newline
C31_Witness ==
  /\ scanLast.op = "takeChunkWithinLine"
  /\ scanLast.before = <<>>
  /\ TakenByLast = << <<>>, <<"a", NL, "a">> >>
  /\ scanLast.val = <<"a", NL>>
  /\ scanBuffer = <<"a">>

\* a call that returned "" after text had been read: the Reader is at DONE
C31_WitnessEnd ==
  /\ scanLast.op = "takeChunkWithinLine"
  /\ scanLast.val = <<>>
  /\ Flat(source) # <<>>
  /\ scanInputDone

\* the text copyLineTo's next takeChunkWithinLine() returns from the buffer
NextPiece ==
  IF IndexOf(buffer, NL) = 0 THEN buffer ELSE Take(buffer, IndexOf(buffer, NL))

\* C32: a turn of copyLineTo's loop that finds text in the buffer writes it
\* at once, up to and including the first newline, without a read from the
\* Reader; after an accepted write it returns if the piece ended with the
\* newline, with the text behind the newline still in the buffer, and goes
\* on otherwise; after a refused write it returns false, nothing is written
\* and copy() is cancelled.  With an empty buffer it writes nothing: it
\* waits for one pull(), or returns when the input is at its end.
C32_CopyLineTo ==
  [][ (pc = "copyLineTo") =>
        IF buffer = <<>>
        THEN /\ cells' = cells
             /\ refused' = refused
             /\ \/ pc' = "copyLineTo"
                \/ pc' = ret /\ rest = <<>> /\ buffer' = <<>> /\ inputDone'
        ELSE /\ rest' = rest
             /\ buffer' = Drop(buffer, Len(NextPiece))
             /\ \/ /\ cells' = Written(cells, NextPiece)
                   /\ refused' = refused
                   /\ pc' = IF IndexOf(buffer, NL) = 0 THEN "copyLineTo"
                            ELSE ret
                \/ /\ cells' = cells
                   /\ refused' = refused \cup {"write"}
                   /\ pc' = "cancelled" ]_vars

\* the "x" of a code cell's line has been written while the line's newline
\* is still with the Reader
C32_Witness ==
  /\ pc = "copyLineTo"
  /\ cells = <<[type |-> "code", text |-> <<"x">>]>>
  /\ buffer = <<>>
  /\ rest # <<>>
  /\ Head(rest) = NL

\* copyLineTo has returned after the piece with the newline; the text that
\* arrived in the same chunk behind the newline is still in the buffer
C32_WitnessRest ==
  /\ pc = "copyCodeCell"
  /\ cells = <<[type |-> "code", text |-> <<"x", NL>>]>>
  /\ buffer # <<>>

\* a refused write of a line's first piece has cancelled copy()
C32_WitnessRefused ==
  /\ pc = "cancelled"
  /\ refused = {"write"}
  /\ cells = <<[type |-> "code", text |-> <<>>]>>
  /\ input = HeaderToken("python") \o <<"x", NL>>
  /\ buffer \o rest = <<NL>>

\* C33: a Scanner method called while a read of an earlier call is still
\* outstanding issues no read on the Reader (it raises an error instead).
C33_NoOverlappingRead ==
  [][ (openReads # <<>> /\ scanCalls' = scanCalls + 1) =>
        (openReads' = openReads /\ chunksLeft' = chunksLeft) ]_vars

\* the Reader has answered DONE to a read made by the running takeAll()
TakeAllSawDone ==
  /\ scanCall.op = "takeAll"
  /\ \E i \in 1..Len(openReads) :
       openReads[i].call = scanCalls /\ openReads[i].result = DoneResult

\* C40: once the Reader has answered DONE to takeAll(), takeAll() reads no
\* more: its next step is to return, with the whole input.
C40_TakeAllReturns ==
  [][ TakeAllSawDone =>
        /\ scanCall' = NoCall
        /\ scanLast'.op = "takeAll"
        /\ scanLast'.val = Flat(source)
        /\ chunksLeft' = chunksLeft ]_vars

\* C34: when close() has been called and the stdout handler has returned or
\* thrown, close() settles in the end, whether or not the child exits by
\* itself.
C34_CloseSettlesAfterHandler ==
  (closePc \notin {"none", "settled"} /\ handler \in {"returned", "threw"})
    ~> (closePc = "settled")

\* C38: a write() that waits for "drain" when the child has ended, or when
\* stdin has reported an error, settles in the end.
C38_WriteSettles ==
  (writesOpen > 0 /\ (proc # "running" \/ "stdinError" \in seen))
    ~> (writesOpen = 0)

\* a promise job of the given kind is queued
Queued(task) == \E i \in 1..Len(jobs) : jobs[i] = task

\* C36: the job of the un-awaited skipToken runs while copy() waits for the
\* start call, whenever the sink settles that call's promise: it finds the
\* matched marker at the head of the buffer and removes exactly it; copy()
\* resumes only after that job has run, so skipBlankLines and the copy of
\* the body never see the marker that was matched; and between the match
\* and the resumption nothing is written to the sink.
C36_MarkerSkippedBeforeBody ==
  [][ /\ (pc \notin {"startCell", "awaitStart"}) => ~Queued("skipToken")
      /\ (Queued("skipToken") /\ ~Queued("skipToken")') =>
           /\ pc = "awaitStart"
           /\ IsPrefix(HeaderToken(header), buffer)
           /\ buffer' = Drop(buffer, Len(HeaderToken(header)))
           /\ cells' = cells
      /\ (pc = "awaitStart" /\ pc' # pc) =>
           /\ pc' = "skipBlank"
           /\ ~Queued("skipToken")
           /\ buffer' = buffer
           /\ cells' = cells ]_vars

\* copy() has resumed after the start call of the first cell, "%python\n":
\* the marker is gone, the text behind it is all that is left to scan
C36_Witness ==
  /\ pc = "skipBlank"
  /\ header = "python"
  /\ input = BlankLinesCell
  /\ buffer \o rest = Drop(input, Len(HeaderToken("python")))
  /\ jobs = <<>>

\* the start call's promise is still pending when the marker has been removed
C36_WitnessPending ==
  /\ pc = "awaitStart"
  /\ startPromise = "pending"
  /\ jobs = <<>>
  /\ Len(cells) = 2

\* both continuations are queued: the start call's promise was settled
\* when copy() awaited it
C36_WitnessQueued ==
  /\ pc = "awaitStart"
  /\ jobs = <<"skipToken", "copy">>

\* the buffer begins with the whole marker of some cell type
MarkerBuffered ==
  \E i \in 1..Len(allCellTypes) : IsPrefix(HeaderToken(allCellTypes[i]), buffer)

\* C37: copy() never throws "expected a header line": when copyMarkdown or
\* copyCodeCell has returned, the Scanner is at the end of the input or its
\* buffer begins with a whole header marker.
C37_NoHeaderError ==
  /\ pc # "error"
  /\ (pc = "afterCell") => (atEnd(buffer, inputDone) \/ MarkerBuffered)

\* copyMarkdown has returned from the implicit first cell in front of the
\* marker of a code cell
C37_Witness ==
  /\ pc = "afterCell"
  /\ ~atEnd(buffer, inputDone)
  /\ MarkerBuffered
  /\ Len(cells) = 1
  /\ cells[1].type = "implicit"

\* copyCodeCell has returned in front of the marker of the next cell
C37_WitnessCode ==
  /\ pc = "afterCell"
  /\ MarkerBuffered
  /\ header = "python"
  /\ cells # <<>>
  /\ cells[Len(cells)].type = "code"

\* C35: copy() that is never refused by the sink returns in the end, in the
\* first delivery and in the second, and when it has returned the buffer
\* is empty, the Reader has nothing left and #inputDone is set.
C35_CopyReturnsAtEnd ==
  /\ [](pc = "returned" => (atEnd(buffer, inputDone) /\ rest = <<>>))
  /\ (pc = "copy") ~> (pc = "returned" \/ refused # {})

\* copy() has returned after two cells, with no call refused
C35_Witness ==
  /\ pc = "returned"
  /\ refused = {}
  /\ Len(cells) = 2
  /\ input # <<>>
  /\ atEnd(buffer, inputDone)

\* C39: a read() of the adapter that waits is settled once the source holds
\* data, has ended or has failed, and no waiting read coexists with an end
\* or an error that the listeners have already recorded.
C39_ReadSettles ==
  /\ [](currentRead = "pending" => (~streamEnded /\ ~streamError))
  /\ (currentRead = "pending" /\ (srcBuf # <<>> \/ srcState # "open"))
       ~> (currentRead = "none")

\* a read() is waiting and the source reaches its end before "end" is emitted
C39_Witness ==
  /\ currentRead = "pending"
  /\ srcState = "ended"
  /\ srcBuf = <<>>
  /\ ~endEmitted

\* a read() is waiting and a chunk has arrived that "readable" has yet to
\* hand over
C39_WitnessData ==
  /\ currentRead = "pending"
  /\ srcBuf # <<>>
  /\ results # <<>>

\* every read() has been answered: a chunk, and after it DONE
C39_WitnessBetween ==
  /\ currentRead = "none"
  /\ streamEnded
  /\ readCalls >= 2
  /\ Len(results) = readCalls
  /\ results[Len(results)] = DoneResult
  /\ results[Len(results) - 1].kind = "chunk"

====
